---- MODULE Spec2Model ----
(***************************************************************************)
(* Chord DHT with quorum replication, vector-clock versions, sloppy        *)
(* quorum and hinted-handoff recovery (src/main.py, src/chord,             *)
(* src/consistency).  Nodes are identified by their ring id; a node is a   *)
(* single cooperative scheduler, cross-node coordination is messages.      *)
(***************************************************************************)
EXTENDS Integers, Sequences, FiniteSets, TLC

\* ---------------------------------------------------------------------
\* Program constants
\* ---------------------------------------------------------------------
M == 6
N == 3
R == 2
W == 2
max_hops == 10

\* ---------------------------------------------------------------------
\* Bounds of the model
\* ---------------------------------------------------------------------
\* A run holds at most MaxOps client requests and failures, of which at
\* most MaxPuts writes, MaxGets reads and MaxCrashes failures; at most
\* MaxLost replies to RECOVER_HANDOFF are lost.
MaxOps == 3
MaxPuts == 2
MaxGets == 2
MaxCrashes == 2
MaxLost == 1

\* The ring of the model: three node ids of the 2^M identifier space and
\* one key; hash_address and hash_key are SHA-1 in the source, the model
\* fixes their results.
Nodes == {10, 30, 50}
Founder == 10
Keys == {"k"}
NoNode == -1

hash_key(k) == 20

Max(a, b) == IF a >= b THEN a ELSE b
Min(a, b) == IF a <= b THEN a ELSE b

\* ---------------------------------------------------------------------
\* Vector clocks (consistency/vector_clock.py).  A clock is a function
\* over Nodes; an entry missing from the dict is the counter 0.
\* ---------------------------------------------------------------------
VectorClock == [n \in Nodes |-> 0]

increment(vc, n) == [vc EXCEPT ![n] = @ + 1]

update(vc, other) == [n \in Nodes |-> Max(vc[n], other[n])]

happens_before(a, b) ==
    /\ \A n \in Nodes : a[n] <= b[n]
    /\ \E n \in Nodes : a[n] < b[n]

concurrent_with(a, b) == ~happens_before(a, b) /\ ~happens_before(b, a)

vc_eq(a, b) == \A n \in Nodes : a[n] = b[n]

vc_gt(a, b) == happens_before(b, a)

vc_lt(a, b) == happens_before(a, b)

dominates(a, b) == \A n \in Nodes : a[n] >= b[n]

\* get_latest_version over a sequence of clocks: the clock of the only
\* candidate, or the marker Conflict (None in the source).
Conflict == [n \in Nodes |-> -1]

is_dominated(versions, i) ==
    \E j \in 1..Len(versions) : happens_before(versions[i], versions[j])

candidates(versions) ==
    {i \in 1..Len(versions) : ~is_dominated(versions, i)}

only_candidate(versions, found) ==
    IF Cardinality(found) = 1 THEN versions[CHOOSE i \in found : TRUE]
    ELSE Conflict

get_latest_version(versions) ==
    IF Len(versions) = 0 THEN Conflict
    ELSE IF Len(versions) = 1 THEN versions[1]
    ELSE only_candidate(versions, candidates(versions))

\* ---------------------------------------------------------------------
\* Range algebra and ring view (chord/routing.py)
\* ---------------------------------------------------------------------
in_range(identifier, start, end, inclusive_start, inclusive_end) ==
    IF start = end THEN TRUE
    ELSE IF start < end
         THEN /\ (IF inclusive_start THEN start <= identifier ELSE start < identifier)
              /\ (IF inclusive_end THEN identifier <= end ELSE identifier < end)
         ELSE \/ (IF inclusive_start THEN identifier >= start ELSE identifier > start)
              \/ (IF inclusive_end THEN identifier <= end ELSE identifier < end)

RECURSIVE SortedSeq(_)
SortedSeq(S) ==
    IF S = {} THEN <<>>
    ELSE LET lo == CHOOSE x \in S : \A y \in S : x <= y
         IN <<lo>> \o SortedSeq(S \ {lo})

Range(s) == {s[i] : i \in 1..Len(s)}

Prefix(s, n) == SubSeq(s, 1, Min(n, Len(s)))

IndexOf(s, x) == CHOOSE i \in 1..Len(s) : s[i] = x

\* Sequence s without the elements of set X, order kept.
RECURSIVE Without(_, _)
Without(s, X) ==
    IF s = <<>> THEN <<>>
    ELSE IF Head(s) \in X THEN Without(Tail(s), X)
         ELSE <<Head(s)>> \o Without(Tail(s), X)

find_successor_from_all(all, identifier) ==
    IF all = <<>> THEN NoNode
    ELSE IF \E i \in 1..Len(all) : all[i] >= identifier
         THEN all[CHOOSE i \in 1..Len(all) :
                     /\ all[i] >= identifier
                     /\ \A j \in 1..(i - 1) : all[j] < identifier]
         ELSE all[1]

get_n_successors(all, identifier, n) ==
    IF all = <<>> \/ n <= 0 THEN <<>>
    ELSE LET responsible == find_successor_from_all(all, identifier)
             start_idx == IndexOf(all, responsible) - 1
             num_nodes == Len(all)
         IN [i \in 1..Min(n, num_nodes) |->
                all[((start_idx + (i - 1)) % num_nodes) + 1]]

\* ---------------------------------------------------------------------
\* Dict helpers: a store is a function whose DOMAIN is the set of keys
\* present.
\* ---------------------------------------------------------------------
EmptyDict == [x \in {} |-> 0]

DictPut(d, k, v) == [x \in (DOMAIN d) \cup {k} |-> IF x = k THEN v ELSE d[x]]

DictDel(d, k) == [x \in (DOMAIN d) \ {k} |-> d[x]]

Entry(value, version) == [value |-> value, version |-> version]

\* ---------------------------------------------------------------------
\* State
\* ---------------------------------------------------------------------
VARIABLES
    started,         \* nodes whose process has been started at least once
    up,              \* up[n]: the process of n is running
    primary_store,   \* ChordStorage.primary_store of each node
    backup_store,    \* ChordStorage.backup_store of each node: buckets in
                     \* dict order, each <<primary id, keys>>
    predecessor,     \* ChordNode.predecessor
    fingers,         \* FingerTable.fingers (fingers[n][0] is the successor)
    all_nodes,       \* FingerTable.all_nodes, sorted
    successor_list,  \* ChordNode.successor_list
    net,             \* requests written to a socket and not yet handled
    rec,             \* position of recover_hinted_handoffs at each node
    nput, nget, ncrash,   \* operations performed so far
    reply,           \* the last reply sent to a client
    acked,           \* value of the latest PUT answered {status: ok}
    produced,        \* last version each node produced for the key
    ev,              \* storage events of the last step
    hist,            \* what happened since the last PUT answered ok
    nlost,           \* RECOVER_HANDOFF replies that did not arrive
    quiet,           \* two recovery runs of one node with nothing in between
    repaired,        \* the last read repair each node handled and what it stored
    storage,         \* one ChordStorage with persistence: its stores and its files
    did,             \* the last operation on it and the state it was called in
    handlers,        \* NetworkManager.handlers of one network manager
    pending,         \* NetworkManager.pending of that manager
    conn,            \* the last connection it handled: request and answer
    calc,            \* the last call of a function of vector_clock.py and its result
    joins,           \* position of join_ring_full at each node that joins
    lookup,          \* one call of find_responsible_node: the replies it meets, its result
    qm,              \* QuorumManager.write_quorum and read_quorum of one node
    got              \* the handlers running at that node and what each was answered

\* Variables of the ring of nodes
ring_vars == <<started, up, primary_store, backup_store, predecessor, fingers,
               all_nodes, successor_list, net, rec, nput, nget, ncrash, reply,
               acked, produced, ev, hist, nlost, quiet, repaired>>

\* Variables of the component specifications further down, which the ring
\* leaves alone
storage_vars == <<storage, did>>

network_vars == <<handlers, pending, conn>>

clock_vars == <<calc>>

join_vars == <<joins>>

\* The call of find_responsible_node examined on its own
lookup_vars == <<lookup>>

\* The QuorumManager of one node and the handlers that share it
quorum_vars == <<qm, got>>

aux == <<storage_vars, network_vars, clock_vars, join_vars, lookup_vars, quorum_vars>>

vars == <<ring_vars, aux>>

ring == <<predecessor, fingers, all_nodes, successor_list>>

\* Client requests and failures so far
nops == nput + nget + ncrash

\* Variables that only the handling of a read repair changes
others == <<repaired, aux>>

\* ---------------------------------------------------------------------
\* Local storage (chord/storage.py)
\* ---------------------------------------------------------------------
has_bucket(bs, for_node_id) == \E i \in 1..Len(bs) : bs[i].id = for_node_id

\* backup_store.get(for_node_id, {})
get_all_backups_for_node(bs, for_node_id) ==
    IF has_bucket(bs, for_node_id)
    THEN bs[CHOOSE i \in 1..Len(bs) : bs[i].id = for_node_id].keys
    ELSE EmptyDict

has_backup(bs, key, for_node_id) ==
    key \in DOMAIN get_all_backups_for_node(bs, for_node_id)

get_backup(bs, key, for_node_id) ==
    get_all_backups_for_node(bs, for_node_id)[key]

put_backup(bs, key, value, version, for_node_id) ==
    IF has_bucket(bs, for_node_id)
    THEN [i \in 1..Len(bs) |->
            IF bs[i].id = for_node_id
            THEN [bs[i] EXCEPT !.keys = DictPut(@, key, Entry(value, version))]
            ELSE bs[i]]
    ELSE Append(bs, [id |-> for_node_id,
                     keys |-> DictPut(EmptyDict, key, Entry(value, version))])

delete_backup(bs, key, for_node_id) ==
    [i \in 1..Len(bs) |->
        IF bs[i].id = for_node_id
        THEN [bs[i] EXCEPT !.keys = DictDel(@, key)]
        ELSE bs[i]]

\* storage.put(key, value) without a version: copy the old version (or an
\* empty clock) and increment the node's own counter.
\* A stamp that starts from the empty clock whatever the store holds
put_version_fresh(ps, key, node_id) == increment(VectorClock, node_id)

put_version(ps, key, node_id) ==
    IF key \in DOMAIN ps
    THEN increment(ps[key].version, node_id)
    ELSE increment(VectorClock, node_id)

\* A primary write that leaves the store as it was
put_discarded(ps, key, value, version) == ps

put(ps, key, value, version) == DictPut(ps, key, Entry(value, version))

\* ---------------------------------------------------------------------
\* Routing at a node (chord/node.py) and find_responsible_node (main.py)
\* ---------------------------------------------------------------------
get_successor(n) == fingers[n][0]

\* Fingers of n that pass the test of find_closest_preceding_finger
preceding_fingers(n, identifier) ==
    {i \in 0..(M - 1) : /\ fingers[n][i] # NoNode
                        /\ in_range(fingers[n][i], n, identifier, FALSE, TRUE)}

\* The search runs from the highest finger to the lowest
highest_finger(n, found) ==
    IF found = {} THEN NoNode
    ELSE fingers[n][CHOOSE i \in found : \A j \in found : j <= i]

find_closest_preceding_finger(n, identifier) ==
    highest_finger(n, preceding_fingers(n, identifier))

or_self(closest, n) == IF closest # NoNode THEN closest ELSE n

find_closest_preceding_node(n, identifier) ==
    or_self(find_closest_preceding_finger(n, identifier), n)

successor_if_self(closest, n, successor) ==
    IF closest = n THEN successor ELSE closest

find_successor_via(n, identifier, successor) ==
    IF successor = NoNode THEN n
    ELSE IF successor = n THEN n
    ELSE IF in_range(identifier, n, successor, FALSE, TRUE) THEN successor
    ELSE IF predecessor[n] # NoNode
            /\ in_range(identifier, predecessor[n], n, FALSE, TRUE)
         THEN n
    ELSE successor_if_self(find_closest_preceding_node(n, identifier), n, successor)

find_successor(n, identifier) == find_successor_via(n, identifier, get_successor(n))

\* The loop of find_responsible_node: current is asked FIND_SUCCESSOR; a
\* node that is down gives no response.
RECURSIVE follow_ring(_, _, _, _)
follow_reply(key_hash, current, next_node, visited, hops) ==
    IF next_node = current THEN current
    ELSE follow_ring(key_hash, next_node, visited \cup {current}, hops + 1)

follow_ring(key_hash, current, visited, hops) ==
    IF hops < max_hops /\ current \notin visited
    THEN IF up[current]
         THEN follow_reply(key_hash, current, find_successor(current, key_hash),
                           visited, hops)
         ELSE current
    ELSE current

\* find_responsible_node trusting its own find_successor, no node asked
follow_from_unasked(n, key_hash, current) == current

follow_from(n, key_hash, current) ==
    IF current = n THEN n ELSE follow_ring(key_hash, current, {n}, 0)

find_responsible_node(n, key_hash) ==
    follow_from(n, key_hash, find_successor(n, key_hash))

\* ---------------------------------------------------------------------
\* Replica handlers (main.py) and quorum reads (consistency/quorum.py)
\* ---------------------------------------------------------------------
\* Version stored by handle_put_replica at node n for (primary, key).
\* A receiver that increments the incoming version without merging the
\* version it holds
put_replica_version_no_merge(bs, n, key, incoming_version, primary_node_id) ==
    increment(incoming_version, n)

put_replica_version(bs, n, key, incoming_version, primary_node_id) ==
    IF has_backup(bs, key, primary_node_id)
    THEN increment(update(get_backup(bs, key, primary_node_id).version,
                          incoming_version), n)
    ELSE increment(incoming_version, n)

handle_put_replica(bs, n, key, value, incoming_version, primary_node_id) ==
    put_backup(bs, key, value,
               put_replica_version(bs, n, key, incoming_version, primary_node_id),
               primary_node_id)

\* An UPDATE_BACKUP handler that stamps the version like a replica write
handle_update_backup_stamped(bs, key, value, version, primary_node_id) ==
    put_backup(bs, key, value, increment(version, primary_node_id), primary_node_id)

handle_update_backup(bs, key, value, version, primary_node_id) ==
    put_backup(bs, key, value, version, primary_node_id)

\* handle_get_replica at node r: primary store, then the bucket of the
\* hinted primary, then the first bucket in dict order that has the key.
any_bucket_has(bs, key) == \E i \in 1..Len(bs) : key \in DOMAIN bs[i].keys

first_bucket_with(bs, key) ==
    bs[CHOOSE i \in 1..Len(bs) :
          /\ key \in DOMAIN bs[i].keys
          /\ \A j \in 1..(i - 1) : key \notin DOMAIN bs[j].keys].keys[key]

replica_has(r, key, hint) ==
    \/ key \in DOMAIN primary_store[r]
    \/ has_backup(backup_store[r], key, hint)
    \/ any_bucket_has(backup_store[r], key)

handle_get_replica(r, key, hint) ==
    IF key \in DOMAIN primary_store[r] THEN primary_store[r][key]
    ELSE IF has_backup(backup_store[r], key, hint)
         THEN get_backup(backup_store[r], key, hint)
         ELSE first_bucket_with(backup_store[r], key)

RECURSIVE SelectReads(_, _, _)
SelectReads(replicas, key, hint) ==
    IF replicas = <<>> THEN <<>>
    ELSE IF up[Head(replicas)] /\ replica_has(Head(replicas), key, hint)
         THEN <<Head(replicas)>> \o SelectReads(Tail(replicas), key, hint)
         ELSE SelectReads(Tail(replicas), key, hint)

PutReplicaMsg(to, key, value, version, primary_node_id, tag) ==
    [type |-> "PUT_REPLICA", to |-> to, key |-> key, value |-> value,
     version |-> version, primary |-> primary_node_id, tag |-> tag]

UpdateBackupMsg(to, key, value, version, primary_node_id, tag) ==
    [type |-> "UPDATE_BACKUP", to |-> to, key |-> key, value |-> value,
     version |-> version, primary |-> primary_node_id, tag |-> tag]

\* replicate_get: what each replica that answered returned
read_entries(reads, key, hint) ==
    [i \in 1..Len(reads) |-> handle_get_replica(reads[i], key, hint)]

versions_of(entries) == [i \in 1..Len(entries) |-> entries[i].version]

\* "pick arbitrarily": the first version read when the versions conflict
latest_or_first(latest, versions) ==
    IF latest = Conflict THEN versions[1] ELSE latest

\* The loop over reads: the value of the last read whose version equals
\* latest_version; the other replicas are stale and get a repair.
quorum_result(c, key, reads, entries, latest_version, tag) ==
    LET matching == {i \in 1..Len(reads) : vc_eq(entries[i].version, latest_version)}
        latest_value == entries[CHOOSE i \in matching : \A j \in matching : j <= i].value
    IN [ok |-> TRUE, value |-> latest_value, version |-> latest_version,
        reads |-> Range(reads),
        repair |-> {PutReplicaMsg(reads[i], key, latest_value, latest_version, c, tag)
                       : i \in (1..Len(reads)) \ matching}]

quorum_decide(c, key, reads, entries, read_quorum, tag) ==
    IF Len(reads) < read_quorum \/ Len(reads) = 0
    THEN [ok |-> FALSE, value |-> 0, version |-> VectorClock,
          reads |-> Range(reads), repair |-> {}]
    ELSE quorum_result(c, key, reads, entries,
                       latest_or_first(get_latest_version(versions_of(entries)),
                                       versions_of(entries)),
                       tag)

quorum_read(c, key, reads, hint, read_quorum, tag) ==
    quorum_decide(c, key, reads, read_entries(reads, key, hint), read_quorum, tag)

\* quorum_get run by node c with threshold read_quorum.  reads are the
\* replicas that returned a value; repair is what repair_replicas sends.
quorum_get(c, key, replicas, hint, read_quorum, tag) ==
    quorum_read(c, key, SelectReads(replicas, key, hint), hint, read_quorum, tag)

\* Forwarding of a client request (handle_put / handle_get): the node the
\* request ends at, the primary it computed, and whether it handles the
\* request in place of an unreachable primary.
MaxForward == 3

RECURSIVE Route(_, _, _)
forward(n, key_hash, fuel, responsible_node) ==
    IF responsible_node = n
    THEN [coord |-> n, primary |-> n, sloppy |-> FALSE]
    ELSE IF up[responsible_node] /\ fuel > 0
         THEN Route(responsible_node, key_hash, fuel - 1)
         ELSE [coord |-> n, primary |-> responsible_node, sloppy |-> TRUE]

Route(n, key_hash, fuel) ==
    forward(n, key_hash, fuel, find_responsible_node(n, key_hash))

\* ---------------------------------------------------------------------
\* Initial states: a founder alone right after create_ring, or the ring
\* of three nodes formed by the founder and two joins through it, with
\* stabilization at rest.
\* ---------------------------------------------------------------------
ring_successor(n) == IF n = 10 THEN 30 ELSE IF n = 30 THEN 50 ELSE 10

ring_predecessor(n) == IF n = 10 THEN 50 ELSE IF n = 30 THEN 10 ELSE 30

Idle == [phase |-> "idle", next_nodes |-> <<>>, recovered_keys |-> EmptyDict,
         seen |-> {}]

NoReply == [op |-> "none", node |-> NoNode, status |-> "none", value |-> 0,
            version |-> VectorClock, stored |-> {}, ackers |-> {},
            readers |-> {}, err |-> FALSE, ackedBefore |-> 0,
            ok |-> FALSE, crashes |-> 0, reads |-> 0, idle |-> FALSE,
            alone |-> FALSE, repair |-> {}, path |-> "none", late |-> {},
            fanout |-> {}]

NoRepair == [key |-> "", value |-> 0, version |-> VectorClock, primary |-> NoNode,
             stored |-> Entry(0, VectorClock)]

NoRun == [node |-> NoNode, stage |-> "none", primary |-> EmptyDict,
          backups |-> [n \in Nodes |-> [p \in Nodes |-> EmptyDict]]]

InitCommon ==
    /\ primary_store = [n \in Nodes |-> EmptyDict]
    /\ backup_store = [n \in Nodes |-> <<>>]
    /\ net = {}
    /\ rec = [n \in Nodes |-> Idle]
    /\ nput = 0 /\ nget = 0 /\ ncrash = 0
    /\ reply = NoReply
    /\ acked = 0
    /\ produced = [n \in Nodes |-> VectorClock]
    /\ ev = {}
    /\ hist = [ok |-> FALSE, crashes |-> 0, reads |-> 0]
    /\ nlost = 0
    /\ quiet = NoRun
    /\ repaired = [n \in Nodes |-> NoRepair]

\* create_ring at the founder; the other processes do not exist.
InitFounder ==
    /\ started = {Founder}
    /\ up = [n \in Nodes |-> n = Founder]
    /\ predecessor = [n \in Nodes |-> NoNode]
    /\ fingers = [n \in Nodes |->
                    [i \in 0..(M - 1) |-> IF n = Founder /\ i = 0 THEN Founder
                                          ELSE NoNode]]
    /\ all_nodes = [n \in Nodes |-> <<>>]
    /\ successor_list = [n \in Nodes |-> IF n = Founder THEN <<Founder>> ELSE <<>>]

\* The founder has handled BROADCAST_JOIN of both joiners (add_node), the
\* joiners have installed GET_ALL_NODES plus themselves (set_all_nodes).
InitRing ==
    /\ started = Nodes
    /\ up = [n \in Nodes |-> TRUE]
    /\ predecessor = [n \in Nodes |-> ring_predecessor(n)]
    /\ fingers = [n \in Nodes |-> [i \in 0..(M - 1) |-> ring_successor(n)]]
    /\ all_nodes = [n \in Nodes |->
                      IF n = Founder THEN SortedSeq(Nodes \ {Founder})
                      ELSE SortedSeq(Nodes)]
    /\ successor_list = [n \in Nodes |-> <<ring_successor(n), ring_predecessor(n)>>]

\* The ring of the founder and node 30 after join_ring_full of 30 through
\* the founder, stabilization at rest: 30 was told the founder is its
\* successor and installed GET_ALL_NODES plus itself, the founder handled
\* BROADCAST_JOIN (add_node); node 50 does not exist.
Pair == {Founder, 30}

pair_other(n) == IF n = Founder THEN 30 ELSE Founder

InitPair ==
    /\ started = Pair
    /\ up = [n \in Nodes |-> n \in Pair]
    /\ predecessor = [n \in Nodes |-> IF n \in Pair THEN pair_other(n) ELSE NoNode]
    /\ fingers = [n \in Nodes |-> [i \in 0..(M - 1) |->
                     IF n \in Pair THEN pair_other(n) ELSE NoNode]]
    /\ all_nodes = [n \in Nodes |->
                      IF n = Founder THEN <<30>>
                      ELSE IF n = 30 THEN SortedSeq(Pair) ELSE <<>>]
    /\ successor_list = [n \in Nodes |-> IF n \in Pair THEN <<pair_other(n)>> ELSE <<>>]

\* A ChordStorage right after construction, its directories empty
NewStorage == [primary_store |-> EmptyDict, backup_store |-> <<>>,
               primary_dir |-> EmptyDict, backup_dir |-> EmptyDict]

NoOp == [op |-> "none", for_node_id |-> NoNode, before |-> NewStorage, n |-> 0]

\* No message: what a handler or the dispatcher returns as None
NoMessage == [msg_type |-> "none", msg_id |-> 0, data |-> "none"]

NoConn == [msg |-> NoMessage, registered |-> FALSE, awaited |-> FALSE,
           response |-> NoMessage]

\* A node that has not called join_ring_full, and one whose call has
\* returned with every reply received
NotJoining == [step |-> "out", known |-> NoNode, reported |-> NoNode, learned |-> {},
               todo |-> <<>>, failed |-> FALSE, serial |-> TRUE]

Joined == [NotJoining EXCEPT !.step = "done", !.known = Founder]

\* No call of find_responsible_node yet
NoLookup == [op |-> "none", replies |-> EmptyDict, first |-> NoNode, hop_limit |-> 0,
             node |-> NoNode, queried |-> <<>>]

\* QuorumManager(n_replicas=N, read_quorum=R, write_quorum=W)
NewQuorumManager == [read_quorum |-> R, write_quorum |-> W]

NoCalc == [op |-> "none", versions |-> <<>>, clock |-> EmptyDict, result |-> EmptyDict]

InitAux ==
    /\ storage = NewStorage
    /\ did = NoOp
    /\ handlers = EmptyDict
    /\ pending = {}
    /\ conn = NoConn
    /\ calc = NoCalc
    /\ lookup = NoLookup
    /\ qm = NewQuorumManager
    /\ got = EmptyDict
    /\ joins = [n \in Nodes |-> IF n \in started \ {Founder} THEN Joined ELSE NotJoining]

Init ==
    /\ InitCommon
    /\ InitFounder \/ InitRing \/ InitPair
    /\ InitAux

Event(kind, n, key, primary_node_id, had, pre, incoming, post, prev) ==
    [kind |-> kind, node |-> n, key |-> key, primary |-> primary_node_id, had |-> had,
     pre |-> pre, incoming |-> incoming, post |-> post, prev |-> prev,
     seen |-> {}, again |-> FALSE, value |-> 0, before |-> 0]

\* ---------------------------------------------------------------------
\* handle_put: client PUT received by node n
\* ---------------------------------------------------------------------
\* "if len(replicas) == 0 and len(node.successor_list) > 0"
or_successor_list(replicas, fallback) ==
    IF Len(replicas) = 0 /\ Len(fallback) > 0 THEN fallback ELSE replicas

put_replicas(c, primary_node_id, all_replicas) ==
    or_successor_list(Prefix(Without(all_replicas, {c, primary_node_id}), N - 1),
                      Prefix(successor_list[c], N - 1))

\* The coordinator's own write: to the primary store, or (the responsible
\* node being unreachable) to the backup bucket of that node.
local_pre(rt, key) ==
    IF rt.sloppy
    THEN IF has_backup(backup_store[rt.coord], key, rt.primary)
         THEN [had |-> TRUE,
               version |-> get_backup(backup_store[rt.coord], key, rt.primary).version]
         ELSE [had |-> FALSE, version |-> VectorClock]
    ELSE IF key \in DOMAIN primary_store[rt.coord]
         THEN [had |-> TRUE, version |-> primary_store[rt.coord][key].version]
         ELSE [had |-> FALSE, version |-> VectorClock]

local_version(rt, key) ==
    IF rt.sloppy THEN increment(local_pre(rt, key).version, rt.coord)
    ELSE put_version(primary_store[rt.coord], key, rt.coord)

\* quorum_put: every send has ended within the timeout and at least
\* write_quorum replicas acknowledged
quorum_put(replicas, ackers, late, needed_remote_acks) ==
    IF needed_remote_acks = 0 THEN TRUE
    ELSE IF Len(replicas) = 0 THEN FALSE
    ELSE late = {} /\ Cardinality(ackers) >= needed_remote_acks

ClientPut(n, key) ==
    /\ up[n]
    /\ nput < MaxPuts
    /\ nops < MaxOps
    /\ \E rt \in {Route(n, hash_key(key), MaxForward)} :
       \E pre \in {local_pre(rt, key)} :
       \E version \in {local_version(rt, key)} :
       \E replicas \in {put_replicas(rt.coord, rt.primary,
                           get_n_successors(all_nodes[rt.coord], hash_key(key), N))} :
       \E bs1 \in {IF rt.sloppy
                   THEN [backup_store EXCEPT
                           ![rt.coord] = put_backup(@, key, nput + 1, version, rt.primary)]
                   ELSE backup_store} :
       \E fanout \in {IF Max(0, W - 1) = 0 THEN {} ELSE Range(replicas)} :
       \E before \in {[r \in fanout |->
                        IF has_backup(bs1[r], key, rt.primary)
                        THEN [had |-> TRUE,
                              version |-> get_backup(bs1[r], key, rt.primary).version]
                        ELSE [had |-> FALSE, version |-> VectorClock]]} :
       \E post \in {[r \in fanout |->
                        put_replica_version(bs1[r], r, key, version, rt.primary)]} :
       \E outcome \in [fanout -> {"ack", "late", "refused"}] :
       \E ackers \in {{r \in fanout : outcome[r] = "ack"}} :
       \E late \in {{r \in fanout : outcome[r] = "late"}} :
       \E success \in {quorum_put(replicas, ackers, late, Max(0, W - 1))} :
          /\ \A r \in fanout : (outcome[r] = "refused") <=> ~up[r]
          /\ primary_store' =
                IF rt.sloppy THEN primary_store
                ELSE [primary_store EXCEPT ![rt.coord] = put(@, key, nput + 1, version)]
          /\ backup_store' =
                [r \in Nodes |->
                    IF r \in ackers
                    THEN handle_put_replica(bs1[r], r, key, nput + 1, version, rt.primary)
                    ELSE bs1[r]]
          /\ net' = net \cup {PutReplicaMsg(r, key, nput + 1, version, rt.primary, 0)
                                : r \in late}
          /\ produced' = [r \in Nodes |->
                            IF r \in ackers THEN post[r]
                            ELSE IF r = rt.coord THEN version ELSE produced[r]]
          /\ ev' = {Event(IF rt.sloppy THEN "sloppy" ELSE "put", rt.coord, key, rt.primary,
                          pre.had, pre.version, VectorClock, version,
                          produced[rt.coord])}
                   \cup
                   {Event("replica", r, key, rt.primary, before[r].had, before[r].version,
                          version, post[r],
                          IF r = rt.coord THEN version ELSE produced[r]) : r \in ackers}
          /\ reply' = [NoReply EXCEPT
                         !.op = "put", !.node = rt.coord,
                         !.status = IF success THEN "ok" ELSE "error",
                         !.value = nput + 1, !.version = version,
                         !.stored = {rt.coord} \cup ackers, !.ackers = ackers,
                         !.ackedBefore = acked,
                         !.alone = (started = {Founder}),
                         !.late = late, !.fanout = fanout]
          /\ acked' = IF success THEN nput + 1 ELSE acked
          /\ hist' = [ok |-> success, crashes |-> 0, reads |-> 0]
    /\ nput' = nput + 1
    /\ quiet' = NoRun
    /\ UNCHANGED <<started, up, ring, rec, nget, ncrash, nlost>>
    /\ UNCHANGED others

\* ---------------------------------------------------------------------
\* handle_get: client GET received by node n
\* ---------------------------------------------------------------------
\* "latest == remote_version" after get_latest_version([version, remote])
is_latest(latest, remote_version) ==
    latest # Conflict /\ vc_eq(latest, remote_version)

prefer_remote(version, remote_version) ==
    is_latest(get_latest_version(<<version, remote_version>>), remote_version)

GetReply(value, version, err, readers, repair, path) ==
    [value |-> value, version |-> version, err |-> err, readers |-> readers,
     repair |-> repair, path |-> path]

\* Local copy found in the primary store (main.py 318-406).
primary_reply(c, local, replicas, result, needed_remote_reads) ==
    IF R <= 1
    THEN GetReply(local.value, local.version, FALSE, {c}, {}, "primary")
    ELSE IF Len(replicas) = 0 /\ needed_remote_reads > 0
    THEN GetReply(0, VectorClock, TRUE, {c}, {}, "primary")
    ELSE IF needed_remote_reads <= 0
    THEN GetReply(local.value, local.version, FALSE, {c}, {}, "primary")
    ELSE IF ~result.ok
    THEN GetReply(0, VectorClock, TRUE, {c} \cup result.reads, {}, "primary")
    ELSE IF prefer_remote(local.version, result.version)
    THEN GetReply(result.value, result.version, FALSE, {c} \cup result.reads,
                  result.repair, "primary")
    ELSE GetReply(local.value, local.version, FALSE, {c} \cup result.reads,
                  result.repair, "primary")

primary_quorum(c, key, hint, tag, replicas) ==
    primary_reply(c, primary_store[c][key], replicas,
                  quorum_get(c, key, replicas, hint, R - 1, tag), R - 1)

primary_replicas(c, all_replicas) ==
    or_successor_list(
        Without(SubSeq(all_replicas, 2, Min(N, Len(all_replicas))), {c}),
        Prefix(successor_list[c], N - 1))

get_primary_path(c, key, hint, tag) ==
    primary_quorum(c, key, hint, tag,
                   primary_replicas(c, get_n_successors(all_nodes[c], hash_key(key), N)))

\* Local copy found in the backup bucket of the primary (main.py 416-462).
backup_reply(c, local, replicas, result) ==
    IF R <= 1
    THEN GetReply(local.value, local.version, FALSE, {c}, {}, "backup")
    ELSE IF Len(replicas) > 0 /\ result.ok
            /\ prefer_remote(local.version, result.version)
    THEN GetReply(result.value, result.version, FALSE, {c} \cup result.reads,
                  result.repair, "backup")
    ELSE GetReply(local.value, local.version, FALSE,
                  {c} \cup (IF Len(replicas) > 0 THEN result.reads ELSE {}),
                  IF Len(replicas) > 0 THEN result.repair ELSE {}, "backup")

backup_quorum(c, key, primary_node_id, tag, replicas) ==
    backup_reply(c, get_backup(backup_store[c], key, primary_node_id), replicas,
                 quorum_get(c, key, Prefix(replicas, R - 1), primary_node_id, R, tag))

backup_replicas(c, primary_node_id, all_replicas) ==
    or_successor_list(Without(all_replicas, {c, primary_node_id}),
                      Without(successor_list[c], {c}))

get_backup_path(c, key, primary_node_id, tag) ==
    backup_quorum(c, key, primary_node_id, tag,
                  backup_replicas(c, primary_node_id,
                                  get_n_successors(all_nodes[c], hash_key(key), N)))

\* No local copy (main.py 464-496).
replicas_reply(result) ==
    IF result.ok
    THEN GetReply(result.value, result.version, FALSE, result.reads,
                  result.repair, "replicas")
    ELSE GetReply(0, VectorClock, FALSE, result.reads, {}, "replicas")

other_replicas(c, all_replicas) ==
    or_successor_list(Prefix(Without(all_replicas, {c}), N - 1),
                      Prefix(successor_list[c], N - 1))

get_replicas_path(c, key, hint, tag) ==
    replicas_reply(
        quorum_get(c, key,
                   other_replicas(c, get_n_successors(all_nodes[c], hash_key(key), N)),
                   hint, R, tag))

handle_get(c, key, primary_node_id, tag) ==
    IF key \in DOMAIN primary_store[c]
    THEN get_primary_path(c, key, primary_node_id, tag)
    ELSE IF has_backup(backup_store[c], key, primary_node_id)
         THEN get_backup_path(c, key, primary_node_id, tag)
         ELSE get_replicas_path(c, key, primary_node_id, tag)

ClientGet(n, key) ==
    /\ up[n]
    /\ nget < MaxGets
    /\ nops < MaxOps
    /\ \E rt \in {Route(n, hash_key(key), MaxForward)} :
       \E res \in {handle_get(rt.coord, key, rt.primary, nget + 1)} :
          /\ reply' = [NoReply EXCEPT
                         !.op = "get", !.node = rt.coord,
                         !.status = IF res.value # 0 THEN "value" ELSE "null",
                         !.value = res.value, !.version = res.version,
                         !.readers = res.readers, !.err = res.err,
                         !.ackedBefore = acked,
                         !.ok = hist.ok, !.crashes = hist.crashes,
                         !.reads = hist.reads, !.idle = (net = {}),
                         !.alone = (started = {Founder}),
                         !.repair = {m.to : m \in res.repair},
                         !.path = res.path]
          \* repair_replicas: a send to a node that is down fails at once
          /\ net' = net \cup {m \in res.repair : up[m.to]}
    /\ nget' = nget + 1
    /\ hist' = [hist EXCEPT !.reads = IF net = {} /\ ncrash = 0 THEN @ + 1 ELSE 0]
    /\ ev' = {}
    /\ quiet' = NoRun
    /\ UNCHANGED <<started, up, primary_store, backup_store, ring, rec, nput,
                   ncrash, acked, produced, nlost>>
    /\ UNCHANGED others

\* ---------------------------------------------------------------------
\* Requests handled after their sender stopped waiting for them
\* ---------------------------------------------------------------------
DeliverPutReplica(m) ==
    /\ m \in net
    /\ m.type = "PUT_REPLICA"
    /\ up[m.to]
    /\ LET bs == backup_store[m.to]
           had == has_backup(bs, m.key, m.primary)
           post == put_replica_version(bs, m.to, m.key, m.version, m.primary)
           last == repaired[m.to]
           \* the same repair as the last one handled here, the entry it
           \* stored being still in place
           again == /\ m.tag # 0
                    /\ last.primary # NoNode
                    /\ <<last.key, last.value, last.version, last.primary>>
                          = <<m.key, m.value, m.version, m.primary>>
                    /\ had
                    /\ get_backup(bs, m.key, m.primary) = last.stored
       IN /\ backup_store' = [backup_store EXCEPT
                                ![m.to] = handle_put_replica(bs, m.to, m.key, m.value,
                                                             m.version, m.primary)]
          /\ produced' = [produced EXCEPT ![m.to] = post]
          /\ ev' = {[Event("replica", m.to, m.key, m.primary, had,
                           IF had THEN get_backup(bs, m.key, m.primary).version
                           ELSE VectorClock,
                           m.version, post, produced[m.to])
                       EXCEPT !.again = again, !.value = m.value,
                              !.before = IF had THEN get_backup(bs, m.key, m.primary).value
                                         ELSE 0]}
          /\ repaired' = IF m.tag # 0
                         THEN [repaired EXCEPT
                                 ![m.to] = [key |-> m.key, value |-> m.value,
                                            version |-> m.version, primary |-> m.primary,
                                            stored |-> Entry(m.value, post)]]
                         ELSE repaired
    /\ net' = net \ {m}
    /\ hist' = [hist EXCEPT !.reads = IF m.tag = 0 THEN 0 ELSE @]
    /\ quiet' = NoRun
    /\ reply' = NoReply
    /\ UNCHANGED <<started, up, primary_store, ring, rec, nput, nget, ncrash,
                   acked, nlost>>
    /\ UNCHANGED aux

DeliverUpdateBackup(m) ==
    /\ m \in net
    /\ m.type = "UPDATE_BACKUP"
    /\ up[m.to]
    /\ LET bs == backup_store[m.to]
           had == has_backup(bs, m.key, m.primary)
       IN /\ backup_store' = [backup_store EXCEPT
                                ![m.to] = handle_update_backup(bs, m.key, m.value,
                                                               m.version, m.primary)]
          /\ ev' = {Event("update_backup", m.to, m.key, m.primary, had,
                          IF had THEN get_backup(bs, m.key, m.primary).version
                          ELSE VectorClock,
                          m.version, m.version, produced[m.to])}
    /\ net' = net \ {m}
    /\ reply' = NoReply
    /\ UNCHANGED <<started, up, primary_store, ring, rec, nput, nget, ncrash,
                   acked, produced, hist, nlost, quiet>>
    /\ UNCHANGED others

\* ---------------------------------------------------------------------
\* Process failure and restart (main.py startup: join, then recovery)
\* ---------------------------------------------------------------------
Crash(n) ==
    /\ started # {Founder}
    /\ up[n]
    /\ ncrash < MaxCrashes
    /\ nops < MaxOps
    /\ up' = [up EXCEPT ![n] = FALSE]
    /\ net' = {m \in net : m.to # n}
    /\ rec' = [rec EXCEPT ![n] = Idle]
    /\ ncrash' = ncrash + 1
    /\ hist' = [hist EXCEPT !.crashes = @ + 1, !.reads = 0]
    /\ ev' = {}
    /\ quiet' = IF quiet.node = n /\ quiet.stage = "first" /\ net = {}
                   /\ \A x \in Nodes : rec[x].phase = "idle"
                THEN [quiet EXCEPT !.stage = "crashed"]
                ELSE NoRun
    /\ reply' = NoReply
    /\ UNCHANGED <<started, primary_store, backup_store, ring, nput, nget,
                   acked, produced, nlost>>
    /\ UNCHANGED others

\* Orders in which the backup directories can be listed when the store is
\* loaded from disk.
Orders(bs) ==
    {s \in [1..Len(bs) -> Range(bs)] : \A i, j \in 1..Len(bs) : s[i] = s[j] => i = j}

\* Nodes named in the GET_ALL_NODES reply of node m
handle_get_all_nodes(m) ==
    (Range(all_nodes[m]) \cup {m} \cup Range(successor_list[m])
        \cup (IF predecessor[m] = NoNode THEN {} ELSE {predecessor[m]}))

\* update_successor_list_network at node n whose successor and predecessor
\* are the given ones; a successor that is down gives no response.
successor_list_via(n, successor, pred) ==
    LET answered == IF up[successor] THEN Without(successor_list[successor], {successor})
                    ELSE <<>>
        more == Without(answered, {n, successor})
        new_list == Prefix(<<successor>> \o more, N)
        with_pred == IF Len(new_list) < N /\ pred # NoNode
                        /\ pred \notin Range(new_list) \cup {n}
                     THEN Append(new_list, pred)
                     ELSE new_list
    IN IF successor = NoNode THEN <<>>
       ELSE IF successor = n
            THEN IF pred # NoNode /\ pred # n THEN <<pred>> ELSE <<>>
            ELSE Prefix(with_pred, N)

update_successor_list_network(n) ==
    successor_list_via(n, get_successor(n), predecessor[n])

\* handle_transfer_keys_request at node s for a joiner that names no
\* predecessor: the keys of the primary store that pass the heuristic
keys_to_transfer(s, new_node_id) ==
    {key \in DOMAIN primary_store[s] :
        hash_key(key) <= new_node_id \/ hash_key(key) > s}

\* The joiner keeps a transferred entry if it has none or an older one
receive_transfer(ps, s, offered) ==
    [key \in (DOMAIN ps) \cup offered |->
        IF key \in offered
           /\ (key \notin DOMAIN ps
               \/ vc_lt(ps[key].version, primary_store[s][key].version))
        THEN primary_store[s][key]
        ELSE ps[key]]

\* _transfer_keys_on_join at node n: one request to each successor in turn
RECURSIVE transfer_keys_on_join(_, _, _)
transfer_keys_on_join(ps, successors, n) ==
    IF successors = <<>> THEN ps
    ELSE transfer_keys_on_join(
            IF up[Head(successors)]
            THEN receive_transfer(ps, Head(successors),
                                  keys_to_transfer(Head(successors), n))
            ELSE ps,
            Tail(successors), n)

\* Steps 4 and 5 of join_ring_full at a process that starts with empty
\* stores: every transferred entry is stored and saved over the file of
\* its key, then load_all_primary reads every file
load_after_transfer(primary_files, transferred) ==
    [key \in (DOMAIN primary_files) \cup (DOMAIN transferred) |->
        IF key \in DOMAIN transferred THEN transferred[key] ELSE primary_files[key]]

\* Targets of RECOVER_HANDOFF
recovery_targets(all, sl, n) ==
    LET next_nodes == Prefix(Without(get_n_successors(all, n, N), {n}), N - 1)
    IN IF next_nodes = <<>> THEN Prefix(sl, N - 1) ELSE next_nodes

\* set_all_nodes: the successor is the first known node after n on the ring
set_all_nodes(all, n) ==
    IF \E i \in 1..Len(all) : all[i] > n
    THEN all[CHOOSE i \in 1..Len(all) :
                /\ all[i] > n
                /\ \A j \in 1..(i - 1) : all[j] <= n]
    ELSE all[1]

\* notify at a node whose predecessor is pred, called for the given node
notify(pred, node, self) ==
    IF pred = NoNode THEN node
    ELSE IF in_range(node, pred, self, FALSE, FALSE) THEN node
    ELSE pred

\* stabilize_network at node p: a node that points to itself and has a
\* predecessor takes the predecessor as successor
was_alone(p) ==
    IF get_successor(p) = p /\ predecessor[p] # NoNode THEN predecessor[p]
    ELSE get_successor(p)

\* stabilize_network at node p: the successor it ends with
stabilized_successor(p, successor) ==
    IF /\ up[successor]
       /\ predecessor[successor] # NoNode
       /\ predecessor[successor] # p
       /\ in_range(predecessor[successor], p, successor, FALSE, FALSE)
    THEN predecessor[successor]
    ELSE successor

\* Startup of a process that was in the ring before: join_ring_full through
\* a live node (the predecessor is forgotten; the stores, empty until then,
\* are loaded from disk after the key transfer), one round of
\* stabilize_network and
\* update_successor_list_network, then recover_hinted_handoffs.  Finger
\* entries other than the first are None or the successor, which no lookup
\* tells apart; they stay at the value fix_fingers gives them.
Restart(n) ==
    /\ started # {Founder}
    /\ n \in started
    /\ ~up[n]
    /\ \E known \in {x \in Nodes \ {n} : up[x]} :
       \E all \in {SortedSeq(handle_get_all_nodes(known) \cup {n})} :
       \E successor \in {set_all_nodes(all, n)} :
       \E ps \in {load_after_transfer(
                      primary_store[n],
                      transfer_keys_on_join(EmptyDict,
                                            Tail(get_n_successors(all, n, N)), n))} :
       \E sl \in {successor_list_via(n, successor, NoNode)} :
          /\ all_nodes' = [all_nodes EXCEPT ![n] = all]
          /\ fingers' = [fingers EXCEPT ![n][0] = successor]
          /\ predecessor' = [predecessor EXCEPT
                               ![n] = NoNode,
                               ![successor] = IF up[successor]
                                              THEN notify(@, n, successor)
                                              ELSE @]
          /\ successor_list' = [successor_list EXCEPT ![n] = sl]
          /\ primary_store' = [primary_store EXCEPT ![n] = ps]
          /\ rec' = [rec EXCEPT
                       ![n] = [Idle EXCEPT
                                 !.phase = "handoff",
                                 !.next_nodes = recovery_targets(all, sl, n)]]
          /\ quiet' = IF quiet.node = n /\ quiet.stage = "crashed"
                      THEN [quiet EXCEPT
                              !.stage = "second",
                              !.primary = ps,
                              !.backups = [x \in Nodes |-> [p \in Nodes |->
                                             get_all_backups_for_node(backup_store[x], p)]]]
                      ELSE [NoRun EXCEPT !.node = n, !.stage = "run"]
    /\ up' = [up EXCEPT ![n] = TRUE]
    /\ \E order \in Orders(backup_store[n]) :
         backup_store' = [backup_store EXCEPT ![n] = order]
    /\ hist' = hist
    /\ ev' = {}
    /\ reply' = NoReply
    /\ UNCHANGED <<started, net, nput, nget, ncrash, acked, produced, nlost>>
    /\ UNCHANGED others

\* stabilization_loop at node p: stabilize_network asks the successor for
\* its predecessor and sends it NOTIFY.
Stabilize(p) ==
    /\ up[p]
    /\ was_alone(p) \notin {NoNode, p}
    /\ \E successor \in {stabilized_successor(p, was_alone(p))} :
          /\ up[successor]
          /\ fingers' = [fingers EXCEPT ![p][0] = successor]
          /\ predecessor' = [predecessor EXCEPT ![successor] = notify(@, p, successor)]
    /\ <<fingers', predecessor'>> # <<fingers, predecessor>>
    /\ ev' = {}
    /\ reply' = NoReply
    /\ UNCHANGED <<started, up, primary_store, backup_store, all_nodes,
                   successor_list, net, rec, nput, nget, ncrash, acked,
                   produced, hist, nlost, quiet>>
    /\ UNCHANGED others

\* ---------------------------------------------------------------------
\* recover_hinted_handoffs, one RECOVER_HANDOFF exchange at a time
\* ---------------------------------------------------------------------
\* handle_recover_handoff deletes every key it returns from the bucket of
\* the requester
RECURSIVE delete_backups_for(_, _, _)
delete_backups_for(bs, keys, for_node_id) ==
    IF keys = {} THEN bs
    ELSE LET key == CHOOSE k \in keys : TRUE
         IN delete_backups_for(delete_backup(bs, key, for_node_id),
                               keys \ {key}, for_node_id)

\* Step 2: keep the first entry seen for a key unless a later one is greater
merge_recovered(recovered_keys, keys_data) ==
    [k \in (DOMAIN recovered_keys) \cup (DOMAIN keys_data) |->
        IF k \notin DOMAIN keys_data THEN recovered_keys[k]
        ELSE IF k \notin DOMAIN recovered_keys THEN keys_data[k]
        ELSE IF vc_gt(keys_data[k].version, recovered_keys[k].version)
             THEN keys_data[k]
             ELSE recovered_keys[k]]

RecoverHandoff(n) ==
    /\ up[n]
    /\ rec[n].phase = "handoff"
    /\ rec[n].next_nodes # <<>>
    /\ LET t == Head(rec[n].next_nodes)
           rest == Tail(rec[n].next_nodes)
           keys_data == get_all_backups_for_node(backup_store[t], n)
       IN \E arrives \in BOOLEAN :
            /\ ~up[t] => arrives
            /\ ~arrives => nlost < MaxLost
            /\ backup_store' = IF up[t]
                               THEN [backup_store EXCEPT
                                       ![t] = delete_backups_for(@, DOMAIN keys_data, n)]
                               ELSE backup_store
            /\ rec' = [rec EXCEPT
                         ![n] = [phase |-> IF rest = <<>> THEN "store" ELSE "handoff",
                                 next_nodes |-> rest,
                                 recovered_keys |->
                                    IF up[t] /\ arrives
                                    THEN merge_recovered(rec[n].recovered_keys, keys_data)
                                    ELSE rec[n].recovered_keys,
                                 seen |-> IF up[t] /\ arrives
                                          THEN rec[n].seen \cup
                                               {[key |-> k, version |-> keys_data[k].version]
                                                   : k \in DOMAIN keys_data}
                                          ELSE rec[n].seen]]
            /\ nlost' = IF arrives THEN nlost ELSE nlost + 1
            /\ quiet' = IF quiet.node = n /\ quiet.stage \in {"run", "second"} /\ arrives
                        THEN quiet ELSE NoRun
    /\ ev' = {}
    /\ reply' = NoReply
    /\ UNCHANGED <<started, up, primary_store, ring, net, nput, nget, ncrash,
                   acked, produced, hist>>
    /\ UNCHANGED others

\* Step 3 for one key
reconcile(ps, key, value, version) ==
    IF key \in DOMAIN ps
    THEN IF vc_gt(version, ps[key].version)
         THEN put(ps, key, value, version)
         ELSE IF concurrent_with(version, ps[key].version)
              THEN put(ps, key, value, update(ps[key].version, version))
              ELSE ps
    ELSE put(ps, key, value, version)

RecoverStore(n) ==
    /\ up[n]
    /\ rec[n].phase = "store"
    /\ LET recovered_keys == rec[n].recovered_keys
           ps == primary_store[n]
           ps1 == [k \in (DOMAIN ps) \cup (DOMAIN recovered_keys) |->
                     IF k \in DOMAIN recovered_keys
                     THEN reconcile(ps, k, recovered_keys[k].value,
                                    recovered_keys[k].version)[k]
                     ELSE ps[k]]
           sl == IF DOMAIN recovered_keys # {}
                 THEN update_successor_list_network(n)
                 ELSE successor_list[n]
       IN /\ primary_store' = [primary_store EXCEPT ![n] = ps1]
          /\ successor_list' = [successor_list EXCEPT ![n] = sl]
          /\ net' = net \cup
                    {UpdateBackupMsg(r, k, recovered_keys[k].value,
                                     recovered_keys[k].version, n, 0)
                        : r \in {x \in Range(Prefix(sl, N - 1)) : up[x]},
                          k \in DOMAIN recovered_keys}
          /\ ev' = {[Event("recover", n, k, n, k \in DOMAIN ps,
                           IF k \in DOMAIN ps THEN ps[k].version ELSE VectorClock,
                           recovered_keys[k].version, ps1[k].version, produced[n])
                       EXCEPT !.seen = {e.version : e \in {x \in rec[n].seen : x.key = k}}]
                       : k \in DOMAIN recovered_keys}
    /\ rec' = [rec EXCEPT ![n] = Idle]
    /\ quiet' = IF quiet.node = n /\ quiet.stage = "second"
                THEN [quiet EXCEPT !.stage = "done"]
                ELSE IF quiet.node = n /\ quiet.stage = "run"
                     THEN [quiet EXCEPT !.stage = "first"]
                     ELSE NoRun
    /\ reply' = NoReply
    /\ UNCHANGED <<started, up, backup_store, predecessor, fingers, all_nodes,
                   nput, nget, ncrash, acked, produced, hist, nlost>>
    /\ UNCHANGED others

\* update_successor_list_loop
UpdateSuccessorList(n) ==
    /\ up[n]
    /\ successor_list[n] # update_successor_list_network(n)
    /\ successor_list' = [successor_list EXCEPT ![n] = update_successor_list_network(n)]
    /\ ev' = {}
    /\ quiet' = NoRun
    /\ reply' = NoReply
    /\ UNCHANGED <<started, up, primary_store, backup_store, predecessor, fingers,
                   all_nodes, net, rec, nput, nget, ncrash, acked,
                   produced, hist, nlost>>
    /\ UNCHANGED others

Next ==
    \/ \E n \in Nodes, key \in Keys : ClientPut(n, key)
    \/ \E n \in Nodes, key \in Keys : ClientGet(n, key)
    \/ \E m \in net : DeliverPutReplica(m)
    \/ \E m \in net : DeliverUpdateBackup(m)
    \/ \E n \in Nodes : Crash(n)
    \/ \E n \in Nodes : Restart(n)
    \/ \E n \in Nodes : RecoverHandoff(n)
    \/ \E n \in Nodes : RecoverStore(n)
    \/ \E n \in Nodes : UpdateSuccessorList(n)
    \/ \E n \in Nodes : Stabilize(n)

Spec == Init /\ [][Next]_vars

\* ---------------------------------------------------------------------
\* Properties
\* ---------------------------------------------------------------------
stored_backup_version(e) ==
    get_backup(backup_store[e.node], e.key, e.primary).version

\* C1: once a PUT of the key has been answered ok, a later GET that
\* returns a value returns the value of that PUT or of a later PUT, never
\* an older one (values are the sequence numbers of the PUTs).
C1_ReadSeesAckedWrite ==
    (reply.op = "get" /\ reply.value # 0) => reply.value >= reply.ackedBefore

\* C2: in the ring of three nodes, after a PUT answered ok and the failure
\* of one node since, a GET at a surviving node obtains R reads and
\* returns the written value.
C2_SurvivesOneFailure ==
    (/\ reply.op = "get"
     /\ started = Nodes
     /\ reply.ok
     /\ reply.crashes = 1
     /\ Cardinality({n \in Nodes : ~up[n]}) = 1)
    => (reply.value = acked /\ Cardinality(reply.readers) >= R)

\* C3: a PUT is answered ok only if at least W distinct nodes stored the
\* write, the coordinator counting once and W - 1 acknowledgements coming
\* from other nodes; on a ring of one node every PUT is answered error.
C3_WriteQuorum ==
    /\ (reply.op = "put" /\ reply.status = "ok")
          => /\ Cardinality(reply.stored) >= W
             /\ Cardinality(reply.ackers \ {reply.node}) >= W - 1
    /\ (reply.op = "put" /\ reply.alone) => reply.status = "error"

\* C4: in the ring of three nodes, a GET reply carries a value only if at
\* least R distinct nodes, the handler's own copy counting as one, returned
\* a version.
C4_ReadQuorum ==
    (reply.op = "get" /\ started = Nodes /\ reply.value # 0)
        => Cardinality(reply.readers) >= R

\* C5: in the ring of three nodes, the versions a node produces for the key
\* by primary writes, sloppy writes and replica receipts are strictly
\* increasing: each one is greater than the one the node produced before.
C5_VCMonotone ==
    started = Nodes =>
        \A e \in ev :
            e.kind \in {"put", "sloppy", "replica"} => vc_gt(e.post, e.prev)

\* C6: a PUT_REPLICA with incoming version V for (p, k) leaves at the
\* receiver n the merge of the existing version (empty if none) and V with
\* n's counter incremented, which strictly dominates V and the version
\* stored before.
C6_PutReplicaVersion ==
    \A e \in ev :
        e.kind = "replica" =>
            /\ stored_backup_version(e) = increment(update(e.pre, e.incoming), e.node)
            /\ vc_gt(stored_backup_version(e), e.incoming)
            /\ vc_gt(stored_backup_version(e), e.pre)

C6_Witness ==
    \E e \in ev : /\ e.kind = "replica"
                  /\ e.had
                  /\ concurrent_with(e.pre, e.incoming)
                  /\ ~vc_eq(e.pre, e.incoming)

\* C7: after put_backup(k, v, V, p) at node n, in whichever handler, the
\* stored version W satisfies W >= V and W[n] is greater than the counter
\* of n in the version stored before.
C7_BackupDominance ==
    \A e \in ev :
        e.kind \in {"sloppy", "replica", "update_backup"} =>
            /\ dominates(stored_backup_version(e),
                         IF e.kind = "update_backup" THEN e.incoming ELSE e.post)
            /\ stored_backup_version(e)[e.node] > e.pre[e.node]

\* C8: when the recovery of p completes, the version in p's primary store
\* dominates or equals every entry for p that a contacted successor
\* returned for the key.
C8_RecoveryDominates ==
    \A e \in ev :
        e.kind = "recover" =>
            \A v \in e.seen : dominates(primary_store[e.node][e.key].version, v)

\* C9: a second recovery run of p right after the first, with no client
\* operation in between and every message delivered (every node it is sent
\* to is up, none is lost or still in flight), leaves p's primary store and
\* the backup store of every other node as they were.
C9_IdempotentRecovery ==
    (quiet.stage = "done" /\ net = {} /\ \A x \in Nodes : up[x]) =>
        /\ primary_store[quiet.node] = quiet.primary
        /\ \A x \in Nodes \ {quiet.node} : \A p \in Nodes :
              get_all_backups_for_node(backup_store[x], p) = quiet.backups[x][p]

C9_Witness ==
    /\ quiet.stage = "done"
    /\ net = {}
    /\ \A x \in Nodes : up[x]
    /\ DOMAIN primary_store[quiet.node] # {}
    /\ \A x \in Nodes \ {quiet.node} :
          DOMAIN get_all_backups_for_node(backup_store[x], quiet.node) # {}

\* C10: with the writes over, no failure and every earlier repair
\* delivered, the GET that ends MaxGets rounds of read-repair finds the
\* replicas in agreement and issues no repair.
C10_ReadRepairConverges ==
    (/\ reply.op = "get"
     /\ started = Nodes
     /\ ncrash = 0
     /\ reply.idle
     /\ reply.reads >= MaxGets - 1)
    => reply.repair = {}

\* C11: a read repair handled by a replica that has just handled the same
\* repair (same key, value and version), the entry stored by the first one
\* still in place, leaves the stored value and version as they were.
C11_RepairIdempotent ==
    \A e \in ev :
        (e.kind = "replica" /\ e.again) =>
            /\ vc_eq(stored_backup_version(e), e.pre)
            /\ get_backup(backup_store[e.node], e.key, e.primary).value = e.before

\* The member of S at or first clockwise after identifier
first_clockwise(S, identifier) ==
    CHOOSE n \in S : \A x \in S : (n - identifier) % (2 ^ M) <= (x - identifier) % (2 ^ M)

\* Node n is up in a ring whose members are all up, knows every member and
\* has the successor and the predecessor the ring gives it.
complete_view(n) ==
    /\ started = Nodes
    /\ \A x \in Nodes : up[x]
    /\ Range(all_nodes[n]) = Nodes
    /\ get_successor(n) = ring_successor(n)
    /\ predecessor[n] = ring_predecessor(n)

\* C12: at a node whose view of the ring is complete, find_successor(id)
\* is, for every id of the identifier space, the first member at or
\* clockwise after id.
C12_FindSuccessor ==
    \A n \in Nodes : \A identifier \in 0..(2 ^ M - 1) :
        complete_view(n) => find_successor(n, identifier) = first_clockwise(Nodes, identifier)

\* s holds N distinct members, each the ring successor of the one before,
\* the first being the member responsible for identifier
is_replica_arc(s, identifier) ==
    /\ Len(s) = N
    /\ Cardinality(Range(s)) = N
    /\ s[1] = first_clockwise(Nodes, identifier)
    /\ \A i \in 1..(Len(s) - 1) : s[i + 1] = ring_successor(s[i])

\* C13: once the three nodes have joined, get_n_successors(h, N) at every
\* node is, for every h, N distinct nodes forming the clockwise arc of the
\* membership that starts at the node responsible for h.
C13_ReplicaSet ==
    started = Nodes =>
        \A n \in Nodes : \A h \in 0..(2 ^ M - 1) :
            is_replica_arc(get_n_successors(all_nodes[n], h, N), h)

\* ---------------------------------------------------------------------
\* ChordStorage with persistence (chord/storage.py): the operations of one
\* storage object, each followed by what it writes to or removes from the
\* node's directory.
\* ---------------------------------------------------------------------
MaxStorageOps == 3

StorageNode == 30

\* Arguments of the operations
StorageValues == {1, 2}

StorageVersions ==
    {VectorClock, increment(VectorClock, 10), increment(VectorClock, 30),
     increment(increment(VectorClock, 10), 30)}

StorageEntries == {Entry(value, version) : value \in StorageValues, version \in StorageVersions}

\* str(node_id) and int(k) of the JSON form of a clock
node_str(n) == IF n = 10 THEN "10" ELSE IF n = 30 THEN "30" ELSE "50"

node_int(k) == CHOOSE n \in Nodes : node_str(n) = k

to_dict(vc) == [k \in {node_str(n) : n \in DOMAIN vc} |-> vc[node_int(k)]]

\* A clock built from the dict without its entries
from_dict_empty(data) == EmptyDict

from_dict(data) == [n \in {node_int(k) : k \in DOMAIN data} |-> data[node_str(n)]]

\* Record written by _save_primary / _save_backup
primary_file(key, value, version) ==
    [key |-> key, value |-> value, version |-> to_dict(version), type |-> "primary",
     primary_node_id |-> NoNode]

backup_file(key, value, version, for_node_id) ==
    [key |-> key, value |-> value, version |-> to_dict(version), type |-> "backup",
     primary_node_id |-> for_node_id]

\* os.makedirs(node_backup_dir, exist_ok=True), then the file
save_backup(backup_dir, key, value, version, for_node_id) ==
    DictPut(backup_dir, for_node_id,
            DictPut(IF for_node_id \in DOMAIN backup_dir THEN backup_dir[for_node_id]
                    ELSE EmptyDict,
                    key, backup_file(key, value, version, for_node_id)))

\* os.remove of the file of a backup that is in memory
remove_backup_file(st, key, for_node_id) ==
    IF has_backup(st.backup_store, key, for_node_id)
       /\ for_node_id \in DOMAIN st.backup_dir
       /\ key \in DOMAIN st.backup_dir[for_node_id]
    THEN DictPut(st.backup_dir, for_node_id, DictDel(st.backup_dir[for_node_id], key))
    ELSE st.backup_dir

load_all_primary(primary_dir) ==
    [key \in DOMAIN primary_dir |->
        Entry(primary_dir[key].value, from_dict(primary_dir[key].version))]

\* What a fresh instance holds for for_node_id after load_all_backups
load_all_backups(backup_dir, for_node_id) ==
    IF for_node_id \in DOMAIN backup_dir
    THEN [key \in DOMAIN backup_dir[for_node_id] |->
            Entry(backup_dir[for_node_id][key].value,
                  from_dict(backup_dir[for_node_id][key].version))]
    ELSE EmptyDict

\* "if key not in primary_store ... elif version > current_version"
is_promoted(ps, key, version) ==
    key \notin DOMAIN ps \/ vc_gt(version, ps[key].version)

\* transfer_backups_to_primary: the primary store after the loop
promote_backups(ps, backups) ==
    [key \in (DOMAIN ps) \cup (DOMAIN backups) |->
        IF key \in DOMAIN backups /\ is_promoted(ps, key, backups[key].version)
        THEN backups[key]
        ELSE ps[key]]

\* and the files it saves
save_promoted(primary_dir, ps, backups) ==
    [key \in (DOMAIN primary_dir)
              \cup {k \in DOMAIN backups : is_promoted(ps, k, backups[k].version)} |->
        IF key \in DOMAIN backups /\ is_promoted(ps, key, backups[key].version)
        THEN primary_file(key, backups[key].value, backups[key].version)
        ELSE primary_dir[key]]

\* del self.backup_store[for_node_id]
del_bucket(bs, for_node_id) == SelectSeq(bs, LAMBDA b : b.id # for_node_id)

transfer_backups_to_primary(st, for_node_id) ==
    IF has_bucket(st.backup_store, for_node_id)
    THEN [st EXCEPT
            !.primary_store = promote_backups(@, get_all_backups_for_node(st.backup_store,
                                                                          for_node_id)),
            !.primary_dir = save_promoted(@, st.primary_store,
                                          get_all_backups_for_node(st.backup_store,
                                                                   for_node_id)),
            !.backup_store = del_bucket(@, for_node_id)]
    ELSE st

delete(ps, key) == IF key \in DOMAIN ps THEN DictDel(ps, key) ELSE ps

transfer_keys(ps, keys) == [key \in (DOMAIN ps) \ keys |-> ps[key]]

receive_keys(ps, data) ==
    [key \in (DOMAIN ps) \cup (DOMAIN data) |->
        IF key \in DOMAIN data /\ is_promoted(ps, key, data[key].version)
        THEN data[key]
        ELSE ps[key]]

\* The record of an operation; at most MaxStorageOps operations are made
Did(op, for_node_id) ==
    [op |-> op, for_node_id |-> for_node_id, before |-> storage, n |-> did.n + 1]

\* storage.put(key, value, version), version None when stamp is set
StoragePut(key, value, given, stamp) ==
    /\ did.n < MaxStorageOps
    /\ \E version \in {IF stamp THEN put_version(storage.primary_store, key, StorageNode)
                        ELSE given} :
          storage' = [storage EXCEPT
                        !.primary_store = put(@, key, value, version),
                        !.primary_dir = DictPut(@, key, primary_file(key, value, version))]
    /\ did' = Did("put", NoNode)
    /\ UNCHANGED <<ring_vars, network_vars, clock_vars, join_vars, lookup_vars, quorum_vars>>

StoragePutBackup(key, value, version, for_node_id) ==
    /\ did.n < MaxStorageOps
    /\ storage' = [storage EXCEPT
                     !.backup_store = put_backup(@, key, value, version, for_node_id),
                     !.backup_dir = save_backup(@, key, value, version, for_node_id)]
    /\ did' = Did("put_backup", for_node_id)
    /\ UNCHANGED <<ring_vars, network_vars, clock_vars, join_vars, lookup_vars, quorum_vars>>

StorageDelete(key) ==
    /\ did.n < MaxStorageOps
    /\ storage' = [storage EXCEPT
                     !.primary_store = delete(@, key),
                     !.primary_dir = IF key \in DOMAIN storage.primary_store
                                     THEN delete(@, key) ELSE @]
    /\ did' = Did("delete", NoNode)
    /\ UNCHANGED <<ring_vars, network_vars, clock_vars, join_vars, lookup_vars, quorum_vars>>

StorageDeleteBackup(key, for_node_id) ==
    /\ did.n < MaxStorageOps
    /\ storage' = [storage EXCEPT
                     !.backup_store = IF has_backup(@, key, for_node_id)
                                      THEN delete_backup(@, key, for_node_id) ELSE @,
                     !.backup_dir = remove_backup_file(storage, key, for_node_id)]
    /\ did' = Did("delete_backup", for_node_id)
    /\ UNCHANGED <<ring_vars, network_vars, clock_vars, join_vars, lookup_vars, quorum_vars>>

StorageTransferBackups(for_node_id) ==
    /\ did.n < MaxStorageOps
    /\ storage' = transfer_backups_to_primary(storage, for_node_id)
    /\ did' = Did("transfer_backups_to_primary", for_node_id)
    /\ UNCHANGED <<ring_vars, network_vars, clock_vars, join_vars, lookup_vars, quorum_vars>>

StorageTransferKeys(keys) ==
    /\ did.n < MaxStorageOps
    /\ storage' = [storage EXCEPT !.primary_store = transfer_keys(@, keys)]
    /\ did' = Did("transfer_keys", NoNode)
    /\ UNCHANGED <<ring_vars, network_vars, clock_vars, join_vars, lookup_vars, quorum_vars>>

StorageReceiveKeys(data) ==
    /\ did.n < MaxStorageOps
    /\ storage' = [storage EXCEPT !.primary_store = receive_keys(@, data)]
    /\ did' = Did("receive_keys", NoNode)
    /\ UNCHANGED <<ring_vars, network_vars, clock_vars, join_vars, lookup_vars, quorum_vars>>

InitStorage ==
    /\ InitCommon
    /\ InitRing
    /\ InitAux

NextStorage ==
    \/ \E key \in Keys, value \in StorageValues, given \in StorageVersions,
           stamp \in BOOLEAN : StoragePut(key, value, given, stamp)
    \/ \E key \in Keys, value \in StorageValues, version \in StorageVersions,
           for_node_id \in Nodes \ {StorageNode} :
             StoragePutBackup(key, value, version, for_node_id)
    \/ \E key \in Keys : StorageDelete(key)
    \/ \E key \in Keys, for_node_id \in Nodes \ {StorageNode} :
             StorageDeleteBackup(key, for_node_id)
    \/ \E for_node_id \in Nodes \ {StorageNode} : StorageTransferBackups(for_node_id)
    \/ \E keys \in SUBSET Keys : StorageTransferKeys(keys)
    \/ \E data \in [Keys -> StorageEntries] : StorageReceiveKeys(data)

SpecStorage == InitStorage /\ [][NextStorage]_vars

\* C14: after transfer_backups_to_primary(p), the primary store holds for
\* every key that was in the backups of p a version that dominates or
\* equals the version of that backup, also when the two were concurrent,
\* and no backup of p is left in the backup store.
C14_PromotionSafety ==
    did.op = "transfer_backups_to_primary" =>
        /\ \A key \in DOMAIN get_all_backups_for_node(did.before.backup_store, did.for_node_id) :
              /\ key \in DOMAIN storage.primary_store
              /\ dominates(storage.primary_store[key].version,
                           get_backup(did.before.backup_store, key, did.for_node_id).version)
        /\ get_all_backups_for_node(storage.backup_store, did.for_node_id) = EmptyDict

\* C15: a PUT whose coordinator wrote locally and obtained W - 1
\* acknowledgements is answered ok, whatever happened to the other sends of
\* the fan-out (connection refused, error reply, no reply in time).
C15_ErrorIsolation ==
    (reply.op = "put" /\ Cardinality(reply.ackers) >= W - 1) => reply.status = "ok"

\* No node holds the key, as primary or as backup
key_absent(key) ==
    \A n \in Nodes : key \notin DOMAIN primary_store[n] /\ ~any_bucket_has(backup_store[n], key)

\* C16: in the ring of three nodes, a GET of a stored key that obtained
\* fewer than R reads, the local one included, is answered {value: null,
\* error}; the bare {value: null} is sent only when the key is absent.
C16_GetError ==
    (reply.op = "get" /\ started = Nodes) =>
        \A key \in Keys :
            /\ (~key_absent(key) /\ Cardinality(reply.readers) < R)
                  => (reply.value = 0 /\ reply.err)
            /\ (reply.value = 0 /\ ~reply.err) => key_absent(key)

\* The entry the write of event e left at its node is in place
write_in_place(e, value) ==
    IF e.kind = "put"
    THEN /\ e.key \in DOMAIN primary_store[e.node]
         /\ primary_store[e.node][e.key] = Entry(value, e.post)
    ELSE /\ has_backup(backup_store[e.node], e.key, e.primary)
         /\ get_backup(backup_store[e.node], e.key, e.primary) = Entry(value, e.post)

\* C17: when a PUT is answered with status error, the coordinator's own
\* write (primary entry or hinted backup) and the write of every replica
\* that acknowledged are stored as they were made.
C17_NoRollback ==
    (reply.op = "put" /\ reply.status = "error") =>
        /\ \E e \in ev : e.kind \in {"put", "sloppy"} /\ e.node = reply.node
        /\ \A r \in reply.ackers : \E e \in ev : e.kind = "replica" /\ e.node = r
        /\ \A e \in ev : write_in_place(e, reply.value)

C17_Witness ==
    /\ reply.op = "put"
    /\ reply.status = "error"
    /\ reply.ackers # {}
    /\ reply.late # {}

\* C18: the version a PUT stores at its coordinator n is the version n
\* held for the key before (in its primary store, or in the backups of the
\* unreachable primary; the empty clock if none) with the counter of n
\* incremented by one; a first sloppy write at a node stores {n:1} and the
\* next one {n:2}.
C18_PutIncrements ==
    \A e \in ev :
        e.kind \in {"put", "sloppy"} =>
            /\ e.post = increment(e.pre, e.node)
            /\ e.post[e.node] = e.pre[e.node] + 1
            /\ \A x \in Nodes \ {e.node} : e.post[x] = e.pre[x]
            /\ ~e.had => e.pre = VectorClock
            /\ reply.version = e.post
            /\ e.kind = "put" => (/\ e.key \in DOMAIN primary_store[e.node]
                                 /\ primary_store[e.node][e.key].version = e.post)
            /\ e.kind = "sloppy" =>
                  get_backup(backup_store[e.node], e.key, e.primary).version = e.post
            /\ (e.kind = "sloppy" /\ ~e.had) => e.post = [VectorClock EXCEPT ![e.node] = 1]
            /\ (e.kind = "sloppy" /\ e.pre = [VectorClock EXCEPT ![e.node] = 1])
                  => e.post = [VectorClock EXCEPT ![e.node] = 2]

\* Node 50 coordinates a second sloppy write of the key
C18_Witness ==
    \E e \in ev : /\ e.kind = "sloppy"
                  /\ e.node = 50
                  /\ e.pre = [VectorClock EXCEPT ![50] = 1]
                  /\ get_backup(backup_store[50], e.key, e.primary).version
                        = [VectorClock EXCEPT ![50] = 2]

\* C20: after any sequence of storage operations, a fresh ChordStorage of
\* the same node that loads all primary and backup files holds exactly the
\* primary and backup entries (key, value, version) of the in-memory stores.
C20_PersistenceRoundTrip ==
    did.op # "none" =>
        /\ load_all_primary(storage.primary_dir) = storage.primary_store
        /\ \A for_node_id \in Nodes :
              load_all_backups(storage.backup_dir, for_node_id)
                = get_all_backups_for_node(storage.backup_store, for_node_id)

\* ---------------------------------------------------------------------
\* The dispatcher of one NetworkManager
\* ---------------------------------------------------------------------

\* Request types a peer may send; main.py registers no handler for
\* "delete" and "leave"
RequestTypes == {"put", "ping", "delete", "leave"}

MsgIds == {1, 2}

\* What a registered callback does with a message
Callables == {"replies", "raises", "returns_none"}

Requests == [msg_type : RequestTypes, msg_id : MsgIds, data : {"request"}]

create_reply_msg(msg_id) == [msg_type |-> "reply", msg_id |-> msg_id, data |-> "ok"]

create_error_msg(error, msg_id) == [msg_type |-> "error", msg_id |-> msg_id, data |-> error]

\* handler(msg) of a registered callback: its return value, or the error
\* reply the dispatcher builds when it raises
call_handler(handler, msg) ==
    CASE handler = "replies" -> create_reply_msg(msg.msg_id)
      [] handler = "raises" -> create_error_msg("raised", msg.msg_id)
      [] OTHER -> NoMessage

dispatch_message(hs, pend, msg) ==
    IF msg.msg_id \in pend THEN NoMessage
    ELSE IF msg.msg_type \in DOMAIN hs THEN call_handler(hs[msg.msg_type], msg)
    ELSE NoMessage

register_handler(msg_type, handler) ==
    /\ handlers' = [t \in DOMAIN handlers \cup {msg_type} |->
                        IF t = msg_type THEN handler ELSE handlers[t]]
    /\ UNCHANGED <<pending, conn>>
    /\ UNCHANGED <<ring_vars, storage_vars, clock_vars, join_vars, lookup_vars, quorum_vars>>

\* One incoming connection: the message is read and dispatched, and the
\* response, if any, is written back before the connection is closed
handle_connection(msg) ==
    /\ conn' = [msg |-> msg,
                registered |-> msg.msg_type \in DOMAIN handlers,
                awaited |-> msg.msg_id \in pending,
                response |-> dispatch_message(handlers, pending, msg)]
    /\ pending' = pending \ {msg.msg_id}
    /\ UNCHANGED handlers
    /\ UNCHANGED <<ring_vars, storage_vars, clock_vars, join_vars, lookup_vars, quorum_vars>>

InitNetwork ==
    /\ InitCommon
    /\ InitRing
    /\ InitAux

NextNetwork ==
    \/ \E msg_type \in RequestTypes, handler \in Callables :
           register_handler(msg_type, handler)
    \/ \E msg \in Requests : handle_connection(msg)

SpecNetwork == InitNetwork /\ [][NextNetwork]_vars

\* C19: a request whose message type has no registered handler is answered
\* with an ERROR reply that carries the msg_id of the request.
C19_NoHandlerError ==
    (conn.msg # NoMessage /\ ~conn.awaited /\ ~conn.registered) =>
        /\ conn.response.msg_type = "error"
        /\ conn.response.msg_id = conn.msg.msg_id

\* ---------------------------------------------------------------------
\* The functions of consistency/vector_clock.py on their own
\* ---------------------------------------------------------------------
MaxVersions == 3
MaxTick == 2

\* Clocks of the lists given to get_latest_version
ListClocks == [Nodes -> 0..1]

VersionLists == UNION {[1..len -> ListClocks] : len \in 1..MaxVersions}

\* self.clock of a VectorClock: a dict that holds some of the node ids
ClockDicts == UNION {[S -> 0..MaxTick] : S \in SUBSET Nodes}

clock_get(clock, node_id) == IF node_id \in DOMAIN clock THEN clock[node_id] ELSE 0

\* VectorClock.__eq__
clock_eq(a, b) ==
    \A node_id \in (DOMAIN a) \cup (DOMAIN b) : clock_get(a, node_id) = clock_get(b, node_id)

CallGetLatestVersion(versions) ==
    /\ calc' = [op |-> "get_latest_version", versions |-> versions, clock |-> EmptyDict,
                result |-> get_latest_version(versions)]
    /\ UNCHANGED <<ring_vars, storage_vars, network_vars, join_vars, lookup_vars, quorum_vars>>

CallRoundTrip(clock) ==
    /\ calc' = [op |-> "round_trip", versions |-> <<>>, clock |-> clock,
                result |-> from_dict(to_dict(clock))]
    /\ UNCHANGED <<ring_vars, storage_vars, network_vars, join_vars, lookup_vars, quorum_vars>>

InitClock ==
    /\ InitCommon
    /\ InitRing
    /\ InitAux

NextClock ==
    \/ \E versions \in VersionLists : CallGetLatestVersion(versions)
    \/ \E clock \in ClockDicts : CallRoundTrip(clock)

SpecClock == InitClock /\ [][NextClock]_vars

\* A version of the list that dominates or equals every version of it
is_greatest(versions, v) ==
    /\ v \in Range(versions)
    /\ \A j \in 1..Len(versions) : dominates(v, versions[j])

\* Two versions of the list, neither dominated by another one, are concurrent
has_conflict(versions) ==
    \E i, j \in 1..Len(versions) :
        /\ ~\E x \in 1..Len(versions) : happens_before(versions[i], versions[x])
        /\ ~\E x \in 1..Len(versions) : happens_before(versions[j], versions[x])
        /\ concurrent_with(versions[i], versions[j])
        /\ ~vc_eq(versions[i], versions[j])

\* C21: for a non-empty list, get_latest_version returns the version that
\* dominates or equals all the others when there is one, also when the
\* list holds equal versions, and returns None exactly when two maximal
\* versions of the list are concurrent.
C21_LatestVersion ==
    calc.op = "get_latest_version" =>
        /\ (\E v \in Range(calc.versions) : is_greatest(calc.versions, v))
              => is_greatest(calc.versions, calc.result)
        /\ calc.result = Conflict <=> has_conflict(calc.versions)

C23_SloppyHint ==
    [][\A e \in ev' :
          (e.kind = "sloppy" /\ nput' = nput + 1) =>
              /\ primary_store' = primary_store
              /\ has_backup(backup_store'[e.node], e.key, e.primary)
              /\ get_backup(backup_store'[e.node], e.key, e.primary).value = reply'.value
              /\ reply'.fanout \cap {e.node, e.primary} = {}
              /\ \A r \in reply'.ackers :
                    /\ has_backup(backup_store'[r], e.key, e.primary)
                    /\ get_backup(backup_store'[r], e.key, e.primary).value = reply'.value]_vars

\* C24: a PUT_REPLICA whose incoming version is strictly dominated by the
\* version the replica already stores for that (primary, key) does not
\* replace the stored value by the older incoming one.
C24_StaleReplica ==
    \A e \in ev :
        (/\ e.kind = "replica"
         /\ e.had
         /\ e.value # 0
         /\ happens_before(e.incoming, e.pre)) =>
            get_backup(backup_store[e.node], e.key, e.primary).value = e.before

\* Some node holds key in its backups for p
hinted(p, key) == \E n \in Nodes : has_backup(backup_store[n], key, p)

\* key is in the backups some node holds for p, or in the primary store of
\* p, or among the keys the running recovery of p has received and is
\* about to store
held(p, key) ==
    \/ hinted(p, key)
    \/ key \in DOMAIN primary_store[p]
    \/ up[p] /\ key \in DOMAIN rec[p].recovered_keys

\* C25: hinted data is never lost: once a hint for (p, key) is stored on
\* some node, key stays in some node's backups for p or in the primary
\* store of p, also when a RECOVER_HANDOFF reply is lost or p crashes in
\* the middle of its recovery.
C25_HintNeverLost ==
    [][\A p \in Nodes : \A key \in Keys : held(p, key) => held(p, key)']_vars

\* C26: every UPDATE_BACKUP the recovery sends for a reconciled key carries
\* the value and the version the primary store of the recovering node now
\* holds for it, also when the local version was kept or a merged clock
\* was stored.
C26_UpdateBackupAuthoritative ==
    [][\A m \in net' \ net :
          m.type = "UPDATE_BACKUP" =>
              /\ m.key \in DOMAIN primary_store'[m.primary]
              /\ primary_store'[m.primary][m.key].value = m.value
              /\ vc_eq(primary_store'[m.primary][m.key].version, m.version)]_vars

\* ---------------------------------------------------------------------
\* Restart and recover_hinted_handoffs alone (main.py, chord/node.py):
\* node 30 of the ring of 10 and 30 is down, the files of its primary
\* store on disk; node 10 holds entries in its own primary store and in
\* its bucket of hints filed for 30.  Versions count at most MaxHintTick
\* writes of each member.
\* ---------------------------------------------------------------------
MaxHintTick == 1

HintClocks == {c \in [Nodes -> 0..MaxHintTick] : c[50] = 0 /\ c # VectorClock}

HintEntries == {Entry(value, version) : value \in 1..MaxPuts, version \in HintClocks}

HintDicts == {EmptyDict} \cup {[key \in Keys |-> e] : e \in HintEntries}

InitRecover ==
    /\ started = Pair
    /\ up = [n \in Nodes |-> n = Founder]
    /\ predecessor = [n \in Nodes |-> IF n \in Pair THEN pair_other(n) ELSE NoNode]
    /\ fingers = [n \in Nodes |-> [i \in 0..(M - 1) |->
                     IF n \in Pair THEN pair_other(n) ELSE NoNode]]
    /\ all_nodes = [n \in Nodes |->
                      IF n = Founder THEN <<30>>
                      ELSE IF n = 30 THEN SortedSeq(Pair) ELSE <<>>]
    /\ successor_list = [n \in Nodes |-> IF n \in Pair THEN <<pair_other(n)>> ELSE <<>>]
    /\ \E primary_files \in HintDicts, held_by_successor \in HintDicts,
          keys_data \in HintDicts :
          /\ primary_store = [n \in Nodes |->
                                IF n = 30 THEN primary_files
                                ELSE IF n = Founder THEN held_by_successor
                                ELSE EmptyDict]
          /\ backup_store = [n \in Nodes |->
                               IF n = Founder /\ keys_data # EmptyDict
                               THEN <<[id |-> 30, keys |-> keys_data]>>
                               ELSE <<>>]
    /\ rec = [n \in Nodes |-> Idle]
    /\ net = {}
    /\ nput = 0 /\ nget = 0 /\ ncrash = 0
    /\ reply = NoReply
    /\ acked = 0
    /\ produced = [n \in Nodes |-> VectorClock]
    /\ ev = {}
    /\ hist = [ok |-> FALSE, crashes |-> 0, reads |-> 0]
    /\ nlost = 0
    /\ quiet = NoRun
    /\ repaired = [n \in Nodes |-> NoRepair]
    /\ InitAux

NextRecover ==
    \/ \E n \in Nodes : Restart(n)
    \/ \E n \in Nodes : RecoverHandoff(n)
    \/ \E n \in Nodes : RecoverStore(n)

SpecRecover == InitRecover /\ [][NextRecover]_vars

\* The entry the reconciliation rule gives for a received entry
reconciled(ps, key, incoming) ==
    IF key \notin DOMAIN ps THEN incoming
    ELSE IF happens_before(ps[key].version, incoming.version) THEN incoming
    ELSE IF dominates(ps[key].version, incoming.version) THEN ps[key]
    ELSE Entry(incoming.value,
               [x \in Nodes |-> Max(ps[key].version[x], incoming.version[x])])

\* C27: for each key received during hinted-handoff recovery the primary
\* store is updated by this rule: no local entry or incoming version
\* strictly newer, the incoming entry is stored; versions concurrent, the
\* incoming value with the element-wise maximum of the clocks; local
\* version dominating or equal, the local entry is left as it is.
C27_Reconciliation ==
    [][\A n \in Nodes :
          (rec[n].phase = "store" /\ rec'[n].phase = "idle" /\ up'[n]) =>
              /\ \A key \in DOMAIN rec[n].recovered_keys :
                    /\ key \in DOMAIN primary_store'[n]
                    /\ primary_store'[n][key]
                          = reconciled(primary_store[n], key, rec[n].recovered_keys[key])
              /\ \A key \in DOMAIN primary_store'[n] \ DOMAIN rec[n].recovered_keys :
                    /\ key \in DOMAIN primary_store[n]
                    /\ primary_store'[n][key] = primary_store[n][key]]_vars

\* ---------------------------------------------------------------------
\* join_ring_full, one request at a time (chord/node.py), with the
\* handlers of main.py that answer it
\* ---------------------------------------------------------------------
\* What a join leaves alone
join_frame == <<backup_store, net, rec, nput, nget, ncrash, reply, acked, produced, ev,
                hist, nlost, quiet, repaired, storage_vars, network_vars, clock_vars,
                lookup_vars, quorum_vars>>

in_progress(n) == joins[n].step \notin {"out", "done"}

\* FingerTable.add_node at a node whose list is all: the list it ends with
add_node(all, node) ==
    IF node \in Range(all) THEN all ELSE SortedSeq(Range(all) \cup {node})

\* and the successor it ends with
add_node_successor(all, successor, node, self) ==
    IF node \in Range(all) THEN successor
    ELSE IF successor = NoNode
            \/ (node > self /\ (node < successor \/ successor <= self))
         THEN node
         ELSE successor

\* Step 1: FIND_SUCCESSOR sent to the known node; without a reply the
\* known node is taken as successor
JoinStart(n, known) ==
    /\ n \notin started
    /\ known \in started
    /\ up[known]
    /\ ~in_progress(known)
    /\ \E arrives \in BOOLEAN :
       \E successor \in {IF arrives THEN find_successor(known, n) ELSE known} :
       \E overlap \in {\E x \in Nodes \ {n} : in_progress(x)} :
          /\ fingers' = [fingers EXCEPT ![n][0] = successor]
          /\ successor_list' = [successor_list EXCEPT ![n] = <<successor>>]
          /\ joins' = [x \in Nodes |->
                         IF x = n
                         THEN [step |-> "get_all_nodes", known |-> known,
                               reported |-> IF arrives THEN successor ELSE NoNode,
                               learned |-> {}, todo |-> <<>>, failed |-> FALSE,
                               serial |-> ~overlap]
                         ELSE IF in_progress(x) THEN [joins[x] EXCEPT !.serial = FALSE]
                         ELSE joins[x]]
    /\ predecessor' = [predecessor EXCEPT ![n] = NoNode]
    /\ started' = started \cup {n}
    /\ up' = [up EXCEPT ![n] = TRUE]
    /\ UNCHANGED <<primary_store, all_nodes>>
    /\ UNCHANGED join_frame

\* Step 2: GET_ALL_NODES sent to the known node, the joiner appended,
\* set_all_nodes
JoinGetAllNodes(n) ==
    /\ joins[n].step = "get_all_nodes"
    /\ \E arrives \in BOOLEAN :
       \E nodes \in {IF arrives THEN handle_get_all_nodes(joins[n].known) ELSE {}} :
       \E all \in {SortedSeq(nodes \cup {n})} :
          /\ all_nodes' = [all_nodes EXCEPT ![n] = all]
          /\ fingers' = [fingers EXCEPT ![n][0] = set_all_nodes(all, n)]
          /\ joins' = [joins EXCEPT
                         ![n].step = IF Without(all, {n}) = <<>> THEN "transfer"
                                     ELSE "broadcast",
                         ![n].learned = nodes,
                         ![n].todo = Without(all, {n}),
                         ![n].failed = ~arrives]
    /\ UNCHANGED <<started, up, primary_store, predecessor, successor_list>>
    /\ UNCHANGED join_frame

\* Step 3: BROADCAST_JOIN to the next node of the list; a node that is
\* not reached within the timeout does not handle it
JoinBroadcast(n) ==
    /\ joins[n].step = "broadcast"
    /\ \E handled \in BOOLEAN :
       \E t \in {Head(joins[n].todo)} :
          /\ all_nodes' = IF handled THEN [all_nodes EXCEPT ![t] = add_node(@, n)]
                          ELSE all_nodes
          /\ fingers' = IF handled
                        THEN [fingers EXCEPT
                                ![t][0] = add_node_successor(all_nodes[t], @, n, t)]
                        ELSE fingers
          /\ joins' = [joins EXCEPT
                         ![n].step = IF Tail(joins[n].todo) = <<>> THEN "transfer"
                                     ELSE "broadcast",
                         ![n].todo = Tail(@),
                         ![n].failed = @ \/ ~handled]
    /\ UNCHANGED <<started, up, primary_store, predecessor, successor_list>>
    /\ UNCHANGED join_frame

\* Step 4: the keys of the successors that now belong to the joiner; the
\* join is complete
JoinTransferKeys(n) ==
    /\ joins[n].step = "transfer"
    /\ primary_store' = [primary_store EXCEPT
                           ![n] = transfer_keys_on_join(
                                      @, Tail(get_n_successors(all_nodes[n], n, N)), n)]
    /\ joins' = [joins EXCEPT ![n].step = "done"]
    /\ UNCHANGED <<started, up, predecessor, fingers, all_nodes, successor_list>>
    /\ UNCHANGED join_frame

InitJoin ==
    /\ InitCommon
    /\ InitFounder
    /\ InitAux

NextJoin ==
    \/ \E n \in Nodes, known \in Nodes : JoinStart(n, known)
    \/ \E n \in Nodes : JoinGetAllNodes(n)
    \/ \E n \in Nodes : JoinBroadcast(n)
    \/ \E n \in Nodes : JoinTransferKeys(n)
    \/ \E n \in Nodes : ~in_progress(n) /\ Stabilize(n)
    \/ \E n \in Nodes : ~in_progress(n) /\ UpdateSuccessorList(n)

SpecJoin == InitJoin /\ [][NextJoin]_vars

\* No join is running and every reply of the joins so far was received
joins_complete ==
    /\ started # {Founder}
    /\ \A n \in Nodes : ~in_progress(n) /\ ~joins[n].failed
    /\ \A n \in started \ {Founder} : joins[n].reported # NoNode

\* C28: after joins made one at a time with every message delivered, the
\* all_nodes list of every node is the set of all ring members, itself
\* included: the joiner as well as every member that was there before it,
\* the founder included.
C28_FullMembership ==
    (joins_complete /\ \A n \in Nodes : joins[n].serial) =>
        \A n \in started : Range(all_nodes[n]) = started

\* Stabilization has linked the three nodes into the ring
ring_formed ==
    /\ started = Nodes
    /\ \A n \in Nodes : /\ get_successor(n) = ring_successor(n)
                        /\ predecessor[n] = ring_predecessor(n)
                        /\ successor_list[n] = update_successor_list_network(n)

\* Both joiners went through the same known member and each was given the
\* membership before the BROADCAST_JOIN of the other was handled there
joined_concurrently(a, b) ==
    /\ a # b
    /\ joins[a].step = "done" /\ joins[b].step = "done"
    /\ joins[a].known = joins[b].known
    /\ b \notin joins[a].learned /\ joins[a].learned # {}
    /\ a \notin joins[b].learned /\ joins[b].learned # {}
    /\ ~joins[a].failed /\ ~joins[b].failed

\* C29: when two nodes have joined through the same known member
\* concurrently, after both joins and the stabilization rounds that follow
\* the all_nodes list of each joiner contains the other joiner, and all
\* nodes compute the same replica set for every key.
C29_ConcurrentJoin ==
    \A a, b \in Nodes :
        (joined_concurrently(a, b) /\ ring_formed) =>
            /\ b \in Range(all_nodes[a])
            /\ a \in Range(all_nodes[b])
            /\ \A h \in 0..(2 ^ M - 1) :
                  Range(get_n_successors(all_nodes[a], h, N))
                    = Range(get_n_successors(all_nodes[b], h, N))

\* C30: when a step of the join after the successor lookup has failed
\* (GET_ALL_NODES without reply, a BROADCAST_JOIN that timed out), the
\* joiner ends the join with its successor pointer at the known member or
\* at the successor that member reported, not at itself.
C30_JoinFallback ==
    \A n \in Nodes :
        (joins[n].step = "transfer" /\ joins[n].failed) =>
            /\ get_successor(n) # n
            /\ joins[n].serial =>
                  get_successor(n) \in {joins[n].known, joins[n].reported} \ {NoNode}

\* ---------------------------------------------------------------------
\* Key transfer on join
\* ---------------------------------------------------------------------
\* The nearest member counter-clockwise of n among the members S
counter_clockwise(S, n) ==
    IF \E x \in S : x < n
    THEN CHOOSE x \in S : x < n /\ \A y \in S : y < n => y <= x
    ELSE CHOOSE x \in S : \A y \in S : y <= x

\* C31: the keys a node returns for TRANSFER_KEYS_REQUEST are the keys of
\* its primary store whose hash lies in (predecessor of the joiner,
\* joiner], so the entries a node stores while it joins are entries of keys
\* it is responsible for, and it stores one only if it had no entry for the
\* key or the incoming version strictly dominates the local one.
C31_TransferKeys ==
    [][\A n \in Nodes :
          (~up[n] /\ up'[n]) =>
              \A key \in DOMAIN primary_store'[n] :
                  (key \notin DOMAIN primary_store[n]
                      \/ primary_store'[n][key] # primary_store[n][key]) =>
                      /\ in_range(hash_key(key),
                                  counter_clockwise(started' \ {n}, n), n, FALSE, TRUE)
                      /\ key \in DOMAIN primary_store[n] =>
                             happens_before(primary_store[n][key].version,
                                            primary_store'[n][key].version)]_vars

\* ---------------------------------------------------------------------
\* Stabilization after the joins
\* ---------------------------------------------------------------------
\* Every join step and every round of the periodic loops that can change
\* something is eventually run (stabilization_loop and
\* update_successor_list_loop of main.py never end)
FairJoin ==
    /\ \A n \in Nodes : WF_vars(JoinGetAllNodes(n))
    /\ \A n \in Nodes : WF_vars(JoinBroadcast(n))
    /\ \A n \in Nodes : WF_vars(JoinTransferKeys(n))
    /\ \A n \in Nodes : WF_vars(~in_progress(n) /\ Stabilize(n))
    /\ \A n \in Nodes : WF_vars(~in_progress(n) /\ UpdateSuccessorList(n))

SpecJoinFair == SpecJoin /\ FairJoin

\* No join is running
joins_stopped == \A n \in Nodes : ~in_progress(n)

\* Every member points to its nearest members in both directions
ring_correct ==
    \A n \in started :
        started # {n} =>
            /\ get_successor(n) = first_clockwise(started \ {n}, n)
            /\ predecessor[n] = counter_clockwise(started \ {n}, n)

\* C32: in a ring where joins have stopped and no node fails, the rounds
\* of stabilize and notify, fairly scheduled, eventually bring the
\* successor pointer of every node to its nearest clockwise member and its
\* predecessor pointer to its nearest counter-clockwise member, and the
\* pointers stay there.
C32_StabilizationConverges == <>[]joins_stopped => <>[]ring_correct

\* ---------------------------------------------------------------------
\* Failure of a predecessor
\* ---------------------------------------------------------------------
\* The loops of run_node keep running at every node that is up, a
\* recovery that has started goes on, and a request written to a socket
\* is handled.
FairRing ==
    /\ \A n \in Nodes : WF_vars(Stabilize(n))
    /\ \A n \in Nodes : WF_vars(UpdateSuccessorList(n))
    /\ \A n \in Nodes : WF_vars(RecoverHandoff(n))
    /\ \A n \in Nodes : WF_vars(RecoverStore(n))
    /\ WF_vars(\E m \in net : DeliverPutReplica(m))
    /\ WF_vars(\E m \in net : DeliverUpdateBackup(m))

SpecFair == Spec /\ FairRing

\* C33: when the predecessor of a node has become unresponsive, the node
\* eventually clears its predecessor pointer, so that the NOTIFY of the
\* next live node counter-clockwise is adopted.
C33_PredecessorCleared ==
    \A n \in Nodes : \A p \in Nodes \ {n} :
        (up[n] /\ predecessor[n] = p /\ ~up[p]) ~> (~up[n] \/ up[p] \/ predecessor[n] # p)

\* ---------------------------------------------------------------------
\* find_responsible_node on its own (main.py): the walk along the ring,
\* whatever the nodes it asks answer
\* ---------------------------------------------------------------------
\* The nodes a walk can meet, the first being the node that runs it
MaxLookupNodes == 4

LookupNodes == 1..MaxLookupNodes

LookupSelf == 1

\* What each node answers to FIND_SUCCESSOR: a node, or nothing (no
\* response within the timeout, or a reply without successor)
ReplyTables == [LookupNodes -> LookupNodes \cup {NoNode}]

\* "max_hops: int = 10", and smaller limits that a short ring reaches
HopLimits == {1, 2, max_hops}

\* "while hops < max_hops" without the test of visited
may_query_again(current, visited, hops, hop_limit) == hops < hop_limit

\* "while hops < max_hops and current.node_id not in visited"
may_query(current, visited, hops, hop_limit) ==
    hops < hop_limit /\ current \notin visited

\* The loop: the node returned and the nodes asked, in order
RECURSIVE lookup_ring(_, _, _, _, _, _)
lookup_ring(replies, current, visited, hops, hop_limit, queried) ==
    IF may_query(current, visited, hops, hop_limit)
    THEN IF replies[current] \in {NoNode, current}
         THEN [node |-> current, queried |-> Append(queried, current)]
         ELSE lookup_ring(replies, replies[current], visited \cup {current}, hops + 1,
                          hop_limit, Append(queried, current))
    ELSE [node |-> current, queried |-> queried]

\* find_responsible_node at LookupSelf whose own find_successor gave first
lookup_responsible_node(replies, first, hop_limit) ==
    IF first = LookupSelf THEN [node |-> LookupSelf, queried |-> <<>>]
    ELSE lookup_ring(replies, first, {LookupSelf}, 0, hop_limit, <<>>)

CallFindResponsibleNode(replies, first, hop_limit) ==
    /\ lookup = NoLookup
    /\ lookup' = [op |-> "find_responsible_node", replies |-> replies, first |-> first,
                  hop_limit |-> hop_limit,
                  node |-> lookup_responsible_node(replies, first, hop_limit).node,
                  queried |-> lookup_responsible_node(replies, first, hop_limit).queried]
    /\ UNCHANGED <<ring_vars, storage_vars, network_vars, clock_vars, join_vars,
                   quorum_vars>>

InitLookup ==
    /\ InitCommon
    /\ InitRing
    /\ InitAux

NextLookup ==
    \E replies \in ReplyTables, first \in LookupNodes, hop_limit \in HopLimits :
        CallFindResponsibleNode(replies, first, hop_limit)

SpecLookup == InitLookup /\ [][NextLookup]_vars

\* C34: find_responsible_node ends after at most max_hops (10)
\* FIND_SUCCESSOR queries, asks no node twice, and returns a node in every
\* case: a reply missing, the hop limit reached, a node that reports
\* itself responsible.
C34_LookupTerminates ==
    lookup.op = "find_responsible_node" =>
        /\ Len(lookup.queried) <= lookup.hop_limit
        /\ Len(lookup.queried) <= 10
        /\ \A i, j \in 1..Len(lookup.queried) :
              lookup.queried[i] = lookup.queried[j] => i = j
        /\ lookup.node \in LookupNodes

\* A walk ended by the hop limit: every node asked named another node
\* that had not been asked
C34_Witness ==
    /\ lookup.op = "find_responsible_node"
    /\ Len(lookup.queried) = lookup.hop_limit
    /\ \A i \in 1..Len(lookup.queried) :
          lookup.replies[lookup.queried[i]] \notin {NoNode, lookup.queried[i]}
    /\ lookup.node \notin Range(lookup.queried) \cup {LookupSelf}

\* ---------------------------------------------------------------------
\* Forwarding of client requests
\* ---------------------------------------------------------------------
\* The nodes that handle a client request received by n, in order: each
\* forwards it to the node its find_responsible_node returns, unless that
\* is the node itself or a node that does not answer
RECURSIVE forwarded_to(_, _, _)
forwarded_to(n, key_hash, fuel) ==
    IF find_responsible_node(n, key_hash) = n
       \/ ~up[find_responsible_node(n, key_hash)]
       \/ fuel = 0
    THEN <<n>>
    ELSE <<n>> \o forwarded_to(find_responsible_node(n, key_hash), key_hash, fuel - 1)

MaxHandlers == 2

Handlers == 1..MaxHandlers

\* A handler that has changed the threshold and awaits the replicas
Waiting(kind, original) ==
    [kind |-> kind, pc |-> "await", original |-> original, n |-> 0, needed |-> 0,
     success |-> FALSE]

\* A handler whose quorum call has returned: the count it was given, the
\* threshold the count was compared with, and the outcome
Decided(kind, original, n, needed) ==
    [kind |-> kind, pc |-> "done", original |-> original, n |-> n, needed |-> needed,
     success |-> n >= needed]

\* handle_put: "original_w = quorum_mgr.write_quorum;
\* quorum_mgr.write_quorum = needed_remote_acks", then the await of
\* quorum_put
PutAdjust(h) ==
    /\ h \notin DOMAIN got
    /\ got' = DictPut(got, h, Waiting("put", qm.write_quorum))
    /\ qm' = [qm EXCEPT !.write_quorum = Max(0, W - 1)]
    /\ UNCHANGED <<ring_vars, storage_vars, network_vars, clock_vars, join_vars,
                   lookup_vars>>

\* replicate_put has returned num_acks acknowledgments: quorum_put
\* compares them with self.write_quorum, handle_put restores the threshold
PutDecide(h, num_acks) ==
    /\ h \in DOMAIN got
    /\ got[h].kind = "put" /\ got[h].pc = "await"
    /\ got' = DictPut(got, h, Decided("put", got[h].original, num_acks, qm.write_quorum))
    /\ qm' = [qm EXCEPT !.write_quorum = got[h].original]
    /\ UNCHANGED <<ring_vars, storage_vars, network_vars, clock_vars, join_vars,
                   lookup_vars>>

\* handle_get with a copy in the primary store: "original_r =
\* quorum_mgr.read_quorum; quorum_mgr.read_quorum = needed_remote_reads",
\* then the awaits of find_responsible_node and quorum_get
GetAdjust(h) ==
    /\ h \notin DOMAIN got
    /\ got' = DictPut(got, h, Waiting("get", qm.read_quorum))
    /\ qm' = [qm EXCEPT !.read_quorum = R - 1]
    /\ UNCHANGED <<ring_vars, storage_vars, network_vars, clock_vars, join_vars,
                   lookup_vars>>

\* replicate_get has returned num_reads reads: quorum_get compares them
\* with self.read_quorum, handle_get restores the threshold
GetDecide(h, num_reads) ==
    /\ h \in DOMAIN got
    /\ got[h].kind = "get" /\ got[h].pc = "await"
    /\ got' = DictPut(got, h, Decided("get", got[h].original, num_reads, qm.read_quorum))
    /\ qm' = [qm EXCEPT !.read_quorum = got[h].original]
    /\ UNCHANGED <<ring_vars, storage_vars, network_vars, clock_vars, join_vars,
                   lookup_vars>>

\* handle_get with a copy in a backup bucket: quorum_get on R - 1 replicas
\* with the threshold as it is
GetBackupAwait(h) ==
    /\ h \notin DOMAIN got
    /\ got' = DictPut(got, h, Waiting("get_backup", 0))
    /\ UNCHANGED <<qm, ring_vars, storage_vars, network_vars, clock_vars, join_vars,
                   lookup_vars>>

GetBackupDecide(h, num_reads) ==
    /\ h \in DOMAIN got
    /\ got[h].kind = "get_backup" /\ got[h].pc = "await"
    /\ got' = DictPut(got, h, Decided("get_backup", got[h].original, num_reads,
                                      qm.read_quorum))
    /\ UNCHANGED <<qm, ring_vars, storage_vars, network_vars, clock_vars, join_vars,
                   lookup_vars>>

InitQuorum ==
    /\ InitCommon
    /\ InitRing
    /\ InitAux

NextQuorum ==
    \/ \E h \in Handlers : PutAdjust(h)
    \/ \E h \in Handlers, num_acks \in 0..(N - 1) : PutDecide(h, num_acks)
    \/ \E h \in Handlers : GetAdjust(h)
    \/ \E h \in Handlers, num_reads \in 0..(N - 1) : GetDecide(h, num_reads)
    \/ \E h \in Handlers : GetBackupAwait(h)
    \/ \E h \in Handlers, num_reads \in 0..(R - 1) : GetBackupDecide(h, num_reads)

SpecQuorum == InitQuorum /\ [][NextQuorum]_vars

\* C36: whatever the interleaving of the PUT and GET handlers of one
\* node, the success of each PUT is decided against W - 1 remote
\* acknowledgments and the success of each replica read against R - 1
\* remote reads: the adjustment of the shared thresholds by one handler
\* never changes the threshold applied to another.
C36_QuorumThresholds ==
    \A h \in DOMAIN got :
        got[h].pc = "done" =>
            /\ got[h].kind = "put" => got[h].needed = W - 1
            /\ got[h].kind \in {"get", "get_backup"} => got[h].needed = R - 1

\* C37: read repair writes the repaired value and version into the backup
\* bucket of the primary of the key on each stale replica, the bucket the
\* stale entry was read from, also when the node that coordinates the read
\* is not the primary of the key.
C37_RepairBucket ==
    \A m \in net :
        (m.type = "PUT_REPLICA" /\ m.tag # 0) =>
            m.primary = first_clockwise(started, hash_key(m.key))

C39_BackupNeverRegresses ==
    [][\A n \in Nodes : \A p \in Nodes : \A key \in Keys :
          (has_backup(backup_store[n], key, p) /\ has_backup(backup_store'[n], key, p)) =>
              dominates(get_backup(backup_store'[n], key, p).version,
                        get_backup(backup_store[n], key, p).version)]_vars

\* ---------------------------------------------------------------------
\* quorum_get on its own (consistency/quorum.py): the reads returned by
\* replicate_get are drawn, the decision is the one of the code
\* ---------------------------------------------------------------------
\* The replicas that answered, named by their position in the list
ReadsFrom(len) == [i \in 1..len |-> i]

\* What the replicas returned: the i-th value read is i
ReadLists ==
    UNION {[1..len -> {Entry(0, version) : version \in ListClocks}]
              : len \in 1..MaxVersions}

read_values(entries) ==
    [i \in 1..Len(entries) |-> Entry(i, entries[i].version)]

CallQuorumGet(entries, read_quorum) ==
    /\ calc' = [op |-> "quorum_get", versions |-> versions_of(entries),
                clock |-> EmptyDict,
                result |-> quorum_decide(Founder, "k", ReadsFrom(Len(entries)),
                                         read_values(entries), read_quorum, 1)]
    /\ UNCHANGED <<ring_vars, storage_vars, network_vars, join_vars, lookup_vars,
                   quorum_vars>>

InitQuorumGet ==
    /\ InitCommon
    /\ InitRing
    /\ InitAux

NextQuorumGet ==
    \E entries \in ReadLists, read_quorum \in {R - 1, R} :
        CallQuorumGet(entries, read_quorum)

SpecQuorumGet == InitQuorumGet /\ [][NextQuorumGet]_vars

\* C40: the version returned by quorum_get is never strictly dominated by
\* the version of another response of the same read, also when three or
\* more responses contain concurrent versions and the conflict fallback
\* picks the first response.
C40_ReturnedNotDominated ==
    (calc.op = "quorum_get" /\ calc.result.ok) =>
        \A i \in 1..Len(calc.versions) :
            ~happens_before(calc.result.version, calc.versions[i])

====
